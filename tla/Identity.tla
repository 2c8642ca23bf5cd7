------------------------------ MODULE Identity ------------------------------
(***************************************************************************)
(* The Identity service (services/identity) and how a program obtains its  *)
(* agent id from it (agents/src/base_agent/mixins/identity.py).            *)
(*                                                                         *)
(* An agent is a key pair, and several programs may run under one key: the *)
(* platform's key is used by the Central Bank, the Task Board, the Court   *)
(* and Reputation, and each registers whenever it starts.  A registration  *)
(* is one request: the service makes an id and a time stamp of one second's *)
(* resolution, and the gateway inserts the row unless the public key is    *)
(* taken.  A program that is told so looks for its key among all agents,   *)
(* one request after another.                                              *)
(***************************************************************************)
EXTENDS Integers, FiniteSets

CONSTANTS
    Processes,  \* programs that register
    Keys,       \* public keys
    KeyOf,      \* the key each program runs under
    NameOf,     \* the display name in its configuration
    AgentIds,   \* "a-<uuid4>" ids, a fresh one for every insert
    MaxTime,    \* bound: how many seconds pass
    MaxFaults,  \* bound: how many answers are lost and programs restarted
    NoOne       \* no row, no id

ASSUME IdentityConstants ==
    /\ KeyOf \in [Processes -> Keys]
    /\ DOMAIN NameOf = Processes
    /\ MaxTime \in Nat /\ MaxFaults \in Nat
    /\ NoOne \notin AgentIds
    /\ NoOne \notin [name : {NameOf[p] : p \in Processes}, key : Keys, registered : Nat]

VARIABLES
    agents,     \* identity_agents: the row of each agent id, or NoOne
    clock,      \* the second registered_at shows
    client,     \* what each program is doing about its registration
    faults      \* lost answers and restarts so far

idVars == <<agents, clock, client, faults>>

Names == {NameOf[p] : p \in Processes}

AgentRow == [name : Names, key : Keys, registered : Nat]

(* id is the agent id a program holds; stamp the registered_at of its      *)
(* request; rest the listed ids it has not looked at yet.                  *)
Client == [pc : {"out", "sent", "listing", "scanning", "in", "failed"},
           id : AgentIds \cup {NoOne}, stamp : Nat, rest : SUBSET AgentIds]

At(pc, stamp, rest) == [pc |-> pc, id |-> NoOne, stamp |-> stamp, rest |-> rest]

Outside == At("out", 0, {})

Holding(a) == [pc |-> "in", id |-> a, stamp |-> 0, rest |-> {}]

Registered == {a \in AgentIds : agents[a] # NoOne}

IdentityInit ==
    /\ agents = [a \in AgentIds |-> NoOne]
    /\ clock = 0
    /\ client = [p \in Processes |-> Outside]
    /\ faults = 0

-----------------------------------------------------------------------------
(* The gateway *)

(* The row the UNIQUE column public_key refuses a second one beside. *)
RowsWithName(p) == {a \in Registered : agents[a].name = NameOf[p]}

RowsOfSecond(p) ==
    {a \in Registered : agents[a].key = KeyOf[p] /\ agents[a].registered = client[p].stamp}

RowsWithKey(p) == {a \in Registered : agents[a].key = KeyOf[p]}

InsertAgent(p, a) ==
    /\ RowsWithKey(p) = {} /\ agents[a] = NoOne
    /\ agents' = [agents EXCEPT ![a] =
          [name |-> NameOf[p], key |-> KeyOf[p], registered |-> client[p].stamp]]

(* A request equal to the stored row up to its id is taken for a replay.   *)
Replayed(p, a) ==
    /\ a \in RowsWithKey(p)
    /\ agents[a].name = NameOf[p] /\ agents[a].registered = client[p].stamp

-----------------------------------------------------------------------------
(* The program *)

Register(p) ==
    /\ client[p].pc = "out"
    /\ client' = [client EXCEPT ![p] = At("sent", clock, {})]
    /\ UNCHANGED <<agents, clock, faults>>

(* 201 with the new or the replayed id, or 409. *)
AnswerRegister(p) ==
    /\ client[p].pc = "sent"
    /\ \/ \E a \in AgentIds : InsertAgent(p, a) /\ client' = [client EXCEPT ![p] = Holding(a)]
       \/ \E a \in AgentIds : /\ Replayed(p, a) /\ UNCHANGED agents
                              /\ client' = [client EXCEPT ![p] = Holding(a)]
       \/ /\ RowsWithKey(p) # {} /\ ~\E a \in AgentIds : Replayed(p, a)
          /\ UNCHANGED agents
          /\ client' = [client EXCEPT ![p] = At("listing", 0, {})]
    /\ UNCHANGED <<clock, faults>>

ListNames(p) ==
    /\ client[p].pc = "listing"
    /\ client' = [client EXCEPT ![p] = At("scanning", 0, {agents[a].name : a \in Registered})]
    /\ UNCHANGED <<agents, clock, faults>>

ListAgents(p) ==
    /\ client[p].pc = "listing"
    /\ client' = [client EXCEPT ![p] = At("scanning", 0, Registered)]
    /\ UNCHANGED <<agents, clock, faults>>

(* GET /agents/{id} of the next candidate; after the last one, give up.    *)
SkipOne(p) ==
    /\ client[p].pc = "scanning"
    /\ \E a \in client[p].rest :
          client' = [client EXCEPT ![p] =
             IF agents[a].key = KeyOf[p] /\ Cardinality(client[p].rest) > 1 THEN Holding(a)
             ELSE IF client[p].rest = {a} THEN At("failed", 0, {})
             ELSE At("scanning", 0, client[p].rest \ {a})]
    /\ UNCHANGED <<agents, clock, faults>>

ScanOne(p) ==
    /\ client[p].pc = "scanning"
    /\ \E a \in client[p].rest :
          client' = [client EXCEPT ![p] =
             IF agents[a].key = KeyOf[p] THEN Holding(a)
             ELSE IF client[p].rest = {a} THEN At("failed", 0, {})
             ELSE At("scanning", 0, client[p].rest \ {a})]
    /\ UNCHANGED <<agents, clock, faults>>

(* An answer is lost, the request executed or not, and the program raises; *)
(* or the program is restarted: it has no id until it registers again.     *)
Restart(p) ==
    /\ client[p].pc # "out" /\ faults < MaxFaults
    /\ faults' = faults + 1
    /\ \/ client[p].pc = "sent" /\ \E a \in AgentIds : InsertAgent(p, a)
       \/ UNCHANGED agents
    /\ client' = [client EXCEPT ![p] = Outside]
    /\ UNCHANGED clock

Tick ==
    /\ clock < MaxTime
    /\ clock' = clock + 1
    /\ UNCHANGED <<agents, client, faults>>

Work(p) == Register(p) \/ AnswerRegister(p) \/ ListAgents(p) \/ ScanOne(p)

IdentityNext == Tick \/ \E p \in Processes : Work(p) \/ Restart(p)

-----------------------------------------------------------------------------
IdentityTypeOK ==
    /\ agents \in [AgentIds -> AgentRow \cup {NoOne}]
    /\ clock \in 0..MaxTime
    /\ client \in [Processes -> Client]
    /\ faults \in 0..MaxFaults

HoldsOwnRow(p) ==
    client[p].id # NoOne => /\ client[p].id \in Registered
                            /\ agents[client[p].id].key = KeyOf[p]

(* Programs that run under one key act under one agent id, programs under  *)
(* different keys never do: whoever registered first, however often, in    *)
(* the same second or not, and whichever answers were lost.  The services  *)
(* recognise the platform by this id (routers/feedback.py,                 *)
(* core/lifespan.py of each service).                                      *)
OneIdPerKey ==
    \A p, q \in Processes : client[p].id # NoOne /\ client[q].id # NoOne =>
        (client[p].id = client[q].id <=> KeyOf[p] = KeyOf[q])

(* A program told that its key is taken finds itself among the agents it   *)
(* then lists, whoever registers meanwhile: "Could not find existing agent *)
(* after 409 conflict" is never raised (mixins/identity.py).               *)
ScanSucceeds ==
    \A p \in Processes :
        /\ client[p].pc # "failed"
        /\ client[p].pc = "scanning" => \E a \in client[p].rest : agents[a].key = KeyOf[p]
=============================================================================
