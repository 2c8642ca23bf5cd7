---------------------------- MODULE MembersProofs ----------------------------
(***************************************************************************)
(* Proofs about Members, for any set of programs, keys, ids, tasks and     *)
(* ratings.  Everything follows from two inductive invariants: what        *)
(* Identity keeps between its table and the programs, and what Reputation  *)
(* keeps of it in the feedback rows.                                       *)
(***************************************************************************)
EXTENDS Members, TLAPS

(* One row per key. *)
KeysUnique == \A a, b \in Registered : agents[a].key = agents[b].key => a = b

(* A program that is in has an id; one that lists found its key taken, and *)
(* one that scans still has its own row to look at.                        *)
Searching(p) ==
    /\ client[p].pc # "failed"
    /\ client[p].pc = "in" => client[p].id # NoOne
    /\ client[p].pc = "listing" => RowsWithKey(p) # {}
    /\ client[p].pc = "scanning" =>
          /\ client[p].rest \subseteq Registered
          /\ \E a \in client[p].rest : agents[a].key = KeyOf[p]

IdInv ==
    /\ IdentityTypeOK
    /\ KeysUnique
    /\ \A p \in Processes : HoldsOwnRow(p)
    /\ \A p \in Processes : Searching(p)

(* Only registered agents rate and are rated. *)
RatersRegistered ==
    \A t \in Tasks, a, b \in AgentIds : Rep!Stored(t, a, b) => a \in Registered /\ b \in Registered

MembersInv == IdInv /\ Rep!ReputationTypeOK /\ RatersRegistered /\ VisibleIffMutual

-----------------------------------------------------------------------------
LEMMA RowIsNotNoOne == NoOne \notin AgentRow
BY IdentityConstants DEF AgentRow, Names

LEMMA ClientStates ==
    /\ Outside \in Client
    /\ Outside.pc = "out" /\ Outside.id = NoOne
    /\ \A a \in AgentIds : Holding(a) \in Client /\ Holding(a).pc = "in" /\ Holding(a).id = a
BY DEF At, Outside, Holding, Client

LEMMA IdentityInitially == IdentityInit => IdInv
<1> SUFFICES ASSUME IdentityInit PROVE IdInv
    OBVIOUS
<1>1. IdentityTypeOK
    BY IdentityConstants, ClientStates DEF IdentityInit, IdentityTypeOK
<1>2. KeysUnique
    BY DEF IdentityInit, KeysUnique, Registered
<1>3. \A p \in Processes : HoldsOwnRow(p) /\ Searching(p)
    BY ClientStates DEF IdentityInit, HoldsOwnRow, Searching
<1> QED BY <1>1, <1>2, <1>3 DEF IdInv

(* Agents are never removed or changed: what a program that does nothing   *)
(* knows stays true while others register.                                 *)
Grows == /\ Registered \subseteq Registered'
         /\ \A a \in Registered : agents'[a] = agents[a]

LEMMA OthersUndisturbed ==
    ASSUME IdInv, IdentityTypeOK', Grows,
           NEW p \in Processes, client'[p] = client[p]
    PROVE  HoldsOwnRow(p)' /\ Searching(p)'
BY DEF IdInv, Grows, HoldsOwnRow, Searching, RowsWithKey, Registered, IdentityTypeOK

(* What an insert does to the table. *)
LEMMA InsertGrows ==
    ASSUME IdInv, NEW p \in Processes, NEW a \in AgentIds, InsertAgent(p, a)
    PROVE  /\ agents' \in [AgentIds -> AgentRow \cup {NoOne}]
           /\ Grows
           /\ Registered' = Registered \cup {a}
           /\ a \notin Registered
           /\ agents'[a].key = KeyOf[p]
           /\ KeysUnique'
<1> DEFINE row == [name |-> NameOf[p], key |-> KeyOf[p], registered |-> client[p].stamp]
<1>1. row \in AgentRow
    BY IdentityConstants DEF IdInv, IdentityTypeOK, AgentRow, Names, Client
<1>2. agents \in [AgentIds -> AgentRow \cup {NoOne}] /\ agents' = [agents EXCEPT ![a] = row]
    BY DEF IdInv, IdentityTypeOK, InsertAgent
<1>3. agents' \in [AgentIds -> AgentRow \cup {NoOne}]
    BY <1>1, <1>2
<1>4. row # NoOne /\ agents'[a] = row /\ \A b \in AgentIds : b # a => agents'[b] = agents[b]
    BY <1>1, <1>2, RowIsNotNoOne
<1>5. a \notin Registered /\ Registered' = Registered \cup {a}
    BY <1>4 DEF InsertAgent, Registered
<1>6. Grows
    BY <1>4, <1>5 DEF Grows, Registered
<1>7. KeysUnique'
  <2>1. \A b \in Registered : agents[b].key # KeyOf[p]
      BY DEF InsertAgent, RowsWithKey
  <2>2. row.key = KeyOf[p]
      OBVIOUS
  <2> QED BY <1>4, <1>5, <2>1, <2>2 DEF KeysUnique, IdInv, Registered
<1> QED BY <1>3, <1>4, <1>5, <1>6, <1>7

LEMMA UnchangedGrows ==
    ASSUME IdInv, UNCHANGED agents
    PROVE  Grows /\ Registered' = Registered /\ KeysUnique'
BY DEF IdInv, Grows, Registered, KeysUnique

(* One step of program p: the table has grown or stayed, and p's own part  *)
(* of the invariant holds afterwards.                                      *)
LEMMA OneClientSteps ==
    ASSUME IdInv, NEW p \in Processes, NEW c \in Client,
           client' = [client EXCEPT ![p] = c],
           agents' \in [AgentIds -> AgentRow \cup {NoOne}], Grows, KeysUnique',
           clock' = clock, faults' \in 0..MaxFaults,
           HoldsOwnRow(p)', Searching(p)'
    PROVE  IdInv'
<1>1. IdentityTypeOK'
    BY DEF IdInv, IdentityTypeOK
<1>2. ASSUME NEW q \in Processes PROVE HoldsOwnRow(q)' /\ Searching(q)'
  <2>1. CASE q = p
      BY <2>1
  <2>2. CASE q # p
      BY <1>1, <2>2, OthersUndisturbed DEF IdInv, IdentityTypeOK
  <2> QED BY <2>1, <2>2
<1> QED BY <1>1, <1>2 DEF IdInv

(* A program that goes out, or holds the id of a row with its key. *)
LEMMA SettledClient ==
    ASSUME IdInv, NEW p \in Processes, NEW c \in Client,
           client' = [client EXCEPT ![p] = c],
           \/ c.id = NoOne /\ c.pc \in {"out", "sent"}
           \/ c.pc = "in" /\ c.id \in Registered' /\ agents'[c.id].key = KeyOf[p]
    PROVE  HoldsOwnRow(p)' /\ Searching(p)'
BY IdentityConstants DEF IdInv, IdentityTypeOK, HoldsOwnRow, Searching, Registered

LEMMA RegisterKeeps ==
    ASSUME IdInv, NEW p \in Processes, Register(p) PROVE IdInv'
<1> DEFINE c == At("sent", clock, {})
<1>1. c \in Client /\ c.id = NoOne /\ c.pc = "sent"
    BY DEF At, Client, IdInv, IdentityTypeOK
<1>2. client' = [client EXCEPT ![p] = c] /\ UNCHANGED <<agents, clock, faults>>
    BY DEF Register
<1> HIDE DEF c
<1>3. HoldsOwnRow(p)' /\ Searching(p)'
    BY <1>1, <1>2, SettledClient
<1> QED BY <1>1, <1>2, <1>3, UnchangedGrows, OneClientSteps DEF IdInv, IdentityTypeOK

LEMMA AnswerRegisterKeeps ==
    ASSUME IdInv, NEW p \in Processes, AnswerRegister(p) PROVE IdInv'
<1>0. UNCHANGED <<clock, faults>>
    BY DEF AnswerRegister
<1>1. CASE \E a \in AgentIds : InsertAgent(p, a) /\ client' = [client EXCEPT ![p] = Holding(a)]
  <2>1. PICK a \in AgentIds : InsertAgent(p, a) /\ client' = [client EXCEPT ![p] = Holding(a)]
      BY <1>1
  <2>2. Holding(a) \in Client /\ Holding(a).pc = "in" /\ Holding(a).id = a
      BY ClientStates
  <2>3. a \in Registered' /\ agents'[a].key = KeyOf[p]
      BY <2>1, InsertGrows
  <2>4. HoldsOwnRow(p)' /\ Searching(p)'
      BY <2>1, <2>2, <2>3, SettledClient
  <2>5. agents' \in [AgentIds -> AgentRow \cup {NoOne}] /\ Grows /\ KeysUnique'
      BY <2>1, InsertGrows
  <2>6. clock' = clock /\ faults' \in 0..MaxFaults
      BY <1>0 DEF IdInv, IdentityTypeOK
  <2> QED BY <2>1, <2>4, <2>2, <2>5, <2>6, OneClientSteps
<1>2. CASE \E a \in AgentIds : /\ Replayed(p, a) /\ UNCHANGED agents
                               /\ client' = [client EXCEPT ![p] = Holding(a)]
  <2>1. PICK a \in AgentIds : /\ Replayed(p, a) /\ UNCHANGED agents
                              /\ client' = [client EXCEPT ![p] = Holding(a)]
      BY <1>2
  <2>2. a \in Registered' /\ agents'[a].key = KeyOf[p]
      BY <2>1 DEF Replayed, RowsWithKey, Registered
  <2>3. HoldsOwnRow(p)' /\ Searching(p)'
      BY <2>1, <2>2, ClientStates, SettledClient
  <2> QED BY <1>0, <2>1, <2>3, ClientStates, UnchangedGrows, OneClientSteps DEF IdInv, IdentityTypeOK
<1>3. CASE /\ RowsWithKey(p) # {} /\ UNCHANGED agents
           /\ client' = [client EXCEPT ![p] = At("listing", 0, {})]
  <2> DEFINE c == At("listing", 0, {})
  <2>1. c \in Client /\ c.id = NoOne /\ c.pc = "listing"
      BY DEF At, Client
  <2>2. client' = [client EXCEPT ![p] = c]
      BY <1>3
  <2> HIDE DEF c
  <2>3. HoldsOwnRow(p)' /\ Searching(p)'
      BY <1>3, <2>1, <2>2 DEF IdInv, IdentityTypeOK, HoldsOwnRow, Searching, RowsWithKey, Registered
  <2> QED BY <1>0, <1>3, <2>1, <2>2, <2>3, UnchangedGrows, OneClientSteps DEF IdInv, IdentityTypeOK
<1> QED BY <1>1, <1>2, <1>3 DEF AnswerRegister

LEMMA ListAgentsKeeps ==
    ASSUME IdInv, NEW p \in Processes, ListAgents(p) PROVE IdInv'
<1> DEFINE c == At("scanning", 0, Registered)
<1>1. c \in Client /\ c.id = NoOne /\ c.pc = "scanning" /\ c.rest = Registered
    BY DEF At, Client, Registered
<1>2. client' = [client EXCEPT ![p] = c] /\ UNCHANGED <<agents, clock, faults>>
    BY DEF ListAgents
<1>3. \E a \in Registered : agents[a].key = KeyOf[p]
    BY DEF ListAgents, IdInv, Searching, RowsWithKey
<1> HIDE DEF c
<1>4. client'[p] = c /\ Registered' = Registered
    BY <1>2 DEF IdInv, IdentityTypeOK, Registered
<1>5. HoldsOwnRow(p)' /\ Searching(p)'
    BY <1>1, <1>2, <1>3, <1>4 DEF HoldsOwnRow, Searching
<1> QED BY <1>1, <1>2, <1>5, UnchangedGrows, OneClientSteps DEF IdInv, IdentityTypeOK

(* The next candidate is the program's own row, or is not the last one.    *)
LEMMA ScanOneKeeps ==
    ASSUME IdInv, NEW p \in Processes, ScanOne(p) PROVE IdInv'
<1>1. client[p].pc = "scanning" /\ UNCHANGED <<agents, clock, faults>>
    BY DEF ScanOne
<1>2. PICK a \in client[p].rest :
         client' = [client EXCEPT ![p] =
             IF agents[a].key = KeyOf[p] THEN Holding(a)
             ELSE IF client[p].rest = {a} THEN At("failed", 0, {})
             ELSE At("scanning", 0, client[p].rest \ {a})]
    BY DEF ScanOne
<1>3. client[p] \in Client /\ a \in Registered /\ client[p].rest \subseteq Registered
    BY <1>1, <1>2 DEF IdInv, IdentityTypeOK, Searching
<1>4. CASE agents[a].key = KeyOf[p]
  <2>1. client' = [client EXCEPT ![p] = Holding(a)]
      BY <1>2, <1>4
  <2>2. a \in AgentIds /\ a \in Registered' /\ agents'[a].key = KeyOf[p]
      BY <1>1, <1>3, <1>4 DEF Registered
  <2>3. HoldsOwnRow(p)' /\ Searching(p)'
      BY <2>1, <2>2, ClientStates, SettledClient
  <2> QED BY <1>1, <2>1, <2>2, <2>3, ClientStates, UnchangedGrows, OneClientSteps
          DEF IdInv, IdentityTypeOK
<1>5. CASE agents[a].key # KeyOf[p]
  <2> DEFINE c == At("scanning", 0, client[p].rest \ {a})
  <2>1. PICK b \in client[p].rest : agents[b].key = KeyOf[p]
      BY <1>1 DEF IdInv, Searching
  <2>2. client[p].rest # {a}
      BY <1>5, <2>1
  <2>3. client' = [client EXCEPT ![p] = c]
      BY <1>2, <1>5, <2>2
  <2>4. c \in Client /\ c.pc = "scanning" /\ c.id = NoOne
        /\ c.rest \subseteq Registered /\ b \in c.rest
      BY <1>1, <1>3, <1>5, <2>1 DEF At, Client
  <2> HIDE DEF c
  <2>5. client'[p] = c /\ Registered' = Registered
      BY <1>1, <2>3 DEF IdInv, IdentityTypeOK, Registered
  <2>6. HoldsOwnRow(p)' /\ Searching(p)'
      BY <1>1, <2>1, <2>4, <2>5 DEF IdInv, HoldsOwnRow, Searching
  <2> QED BY <1>1, <2>3, <2>4, <2>6, UnchangedGrows, OneClientSteps DEF IdInv, IdentityTypeOK
<1> QED BY <1>4, <1>5

LEMMA RestartKeeps ==
    ASSUME IdInv, NEW p \in Processes, Restart(p) PROVE IdInv'
<1>1. client' = [client EXCEPT ![p] = Outside] /\ clock' = clock
    BY DEF Restart
<1>2. faults' \in 0..MaxFaults
    BY IdentityConstants DEF Restart, IdInv, IdentityTypeOK
<1>3. agents' \in [AgentIds -> AgentRow \cup {NoOne}] /\ Grows /\ KeysUnique'
  <2>1. CASE \E a \in AgentIds : InsertAgent(p, a)
      BY <2>1, InsertGrows
  <2>2. CASE UNCHANGED agents
      BY <2>2, UnchangedGrows DEF IdInv, IdentityTypeOK
  <2> QED BY <2>1, <2>2 DEF Restart
<1>4. HoldsOwnRow(p)' /\ Searching(p)'
    BY <1>1, ClientStates, SettledClient
<1> QED BY <1>1, <1>2, <1>3, <1>4, ClientStates, OneClientSteps

LEMMA TickKeeps == IdInv /\ Tick => IdInv'
BY IdentityConstants DEF IdInv, Tick, IdentityTypeOK, KeysUnique, HoldsOwnRow, Searching, Registered, RowsWithKey

LEMMA IdentityStepKeeps == IdInv /\ [IdentityNext]_idVars => IdInv'
<1> SUFFICES ASSUME IdInv, [IdentityNext]_idVars PROVE IdInv'
    OBVIOUS
<1>1. CASE Tick
    BY <1>1, TickKeeps
<1>2. ASSUME NEW p \in Processes, Work(p) \/ Restart(p) PROVE IdInv'
    BY <1>2, RegisterKeeps, AnswerRegisterKeeps, ListAgentsKeeps, ScanOneKeeps, RestartKeeps DEF Work
<1>3. CASE UNCHANGED idVars
    BY <1>3 DEF idVars, IdInv, IdentityTypeOK, KeysUnique, HoldsOwnRow, Searching, Registered, RowsWithKey
<1> QED BY <1>1, <1>2, <1>3 DEF IdentityNext

-----------------------------------------------------------------------------
(* A program that holds the Reputation service's id runs under its key,    *)
(* and only such a program does.                                           *)
LEMMA PlatformById ==
    ASSUME IdInv, NEW p \in Processes, client[Service].id # NoOne, client[p].id # NoOne
    PROVE  client[p].id = client[Service].id <=> client[p].id \in PlatformIds
<1>1. /\ client[p].id \in Registered /\ agents[client[p].id].key = KeyOf[p]
      /\ client[Service].id \in Registered /\ agents[client[Service].id].key = KeyOf[Service]
    BY MembersConstants DEF IdInv, HoldsOwnRow
<1> QED BY <1>1 DEF IdInv, KeysUnique, PlatformIds

LEMMA OnlyHoldersAreIn ==
    ASSUME IdInv, NEW p \in Processes, client[p].id # NoOne
    PROVE  client[p].id \in Registered
BY DEF IdInv, HoldsOwnRow

(* Registering agents leaves the feedback as right as it was: an agent     *)
(* that was not registered has none.                                       *)
LEMMA IdentityKeepsFeedback ==
    ASSUME MembersInv, IdInv', Grows, UNCHANGED feedback
    PROVE  MembersInv'
<1>1. Rep!ReputationTypeOK'
    BY DEF MembersInv, Rep!ReputationTypeOK
<1>2. RatersRegistered'
    BY DEF MembersInv, RatersRegistered, Grows, Rep!Stored
<1>3. VisibleIffMutual'
  <2> SUFFICES ASSUME NEW t \in Tasks, NEW a \in AgentIds, NEW b \in AgentIds,
                      Rep!Stored(t, a, b)'
               PROVE  feedback'[<<t, a, b>>].visible <=> a \in PlatformIds' \/ Rep!Stored(t, b, a)'
      BY DEF VisibleIffMutual, Rep!ShownIffMutual
  <2>1. Rep!Stored(t, a, b) /\ a \in Registered
      BY DEF MembersInv, RatersRegistered, Rep!Stored
  <2>2. a \in PlatformIds' <=> a \in PlatformIds
      BY <2>1 DEF Grows, PlatformIds
  <2> QED BY <2>1, <2>2 DEF MembersInv, VisibleIffMutual, Rep!ShownIffMutual, Rep!Stored
<1> QED BY <1>1, <1>2, <1>3 DEF MembersInv

LEMMA IdentityOnlyAdds == IdInv /\ [IdentityNext]_idVars => Grows
<1> SUFFICES ASSUME IdInv, [IdentityNext]_idVars PROVE Grows
    OBVIOUS
<1>1. ASSUME NEW p \in Processes, NEW a \in AgentIds, InsertAgent(p, a) PROVE Grows
    BY <1>1, InsertGrows
<1>2. ASSUME UNCHANGED agents PROVE Grows
    BY <1>2, UnchangedGrows
<1>3. ASSUME NEW p \in Processes, AnswerRegister(p) \/ Restart(p) PROVE Grows
    BY <1>1, <1>2, <1>3 DEF AnswerRegister, Restart
<1>4. ASSUME NEW p \in Processes, Register(p) \/ ListAgents(p) \/ ScanOne(p) PROVE Grows
    BY <1>2, <1>4 DEF Register, ListAgents, ScanOne
<1>5. CASE Tick \/ UNCHANGED idVars
    BY <1>2, <1>5 DEF Tick, idVars
<1> QED BY <1>3, <1>4, <1>5 DEF IdentityNext, Work

(* The row of d is shown, and otherwise as it was. *)
Opened(d) ==
    /\ feedback'[d] \in Rep!Feedback
    /\ feedback'[d].category = feedback[d].category
    /\ feedback'[d].rating = feedback[d].rating
    /\ feedback'[d].visible = TRUE

(* The rows after a submission: the new one, the other direction shown     *)
(* when it exists, every other as it was.                                  *)
RowsAfter(t, from, to, c, r, force) ==
    /\ feedback'[<<t, from, to>>] =
          [category |-> c, rating |-> r, visible |-> force \/ Rep!Stored(t, to, from)]
    /\ Rep!Stored(t, to, from) => Opened(<<t, to, from>>)
    /\ \A d \in Rep!Directions :
          d # <<t, from, to>> /\ (d # <<t, to, from>> \/ ~Rep!Stored(t, to, from))
             => feedback'[d] = feedback[d]
    /\ feedback' \in [Rep!Directions -> Rep!Feedback \cup {NoOne}]

LEMMA SubmittedRows ==
    ASSUME Rep!ReputationTypeOK, NEW t \in Tasks, NEW from \in AgentIds, NEW to \in AgentIds,
           NEW c \in Categories, NEW r \in Ratings, NEW force \in BOOLEAN,
           Rep!Submit(t, from, to, c, r, force)
    PROVE  RowsAfter(t, from, to, c, r, force)
<1> DEFINE d == <<t, from, to>>
           e == <<t, to, from>>
           row == [category |-> c, rating |-> r, visible |-> force \/ Rep!Stored(t, to, from)]
           added == [feedback EXCEPT ![d] = row]
           opened == [feedback[e] EXCEPT !.visible = TRUE]
<1>1. d \in Rep!Directions /\ e \in Rep!Directions /\ d # e
    BY DEF Rep!Directions, Rep!Submit, Rep!MaySubmit
<1>2. row \in Rep!Feedback
  <2>1. (force \/ Rep!Stored(t, to, from)) \in BOOLEAN
      OBVIOUS
  <2> QED BY <2>1 DEF Rep!Feedback
<1>3. added \in [Rep!Directions -> Rep!Feedback \cup {NoOne}] /\ added[e] = feedback[e]
    BY <1>1, <1>2 DEF Rep!ReputationTypeOK
<1>4. Rep!Stored(t, to, from) => /\ opened \in Rep!Feedback /\ opened.visible = TRUE
                                 /\ opened.category = feedback[e].category
                                 /\ opened.rating = feedback[e].rating
  <2> SUFFICES ASSUME Rep!Stored(t, to, from)
               PROVE  /\ opened \in Rep!Feedback /\ opened.visible = TRUE
                      /\ opened.category = feedback[e].category
                      /\ opened.rating = feedback[e].rating
      OBVIOUS
  <2>1. feedback[e] \in Rep!Feedback
      BY <1>1 DEF Rep!ReputationTypeOK, Rep!Stored
  <2> QED BY <2>1 DEF Rep!Feedback
<1>5. feedback' = IF Rep!Stored(t, to, from) THEN [added EXCEPT ![e].visible = TRUE] ELSE added
    BY DEF Rep!Submit, Rep!WithSubmission
<1>6. Rep!Stored(t, to, from) => feedback' = [added EXCEPT ![e] = opened]
    BY <1>3, <1>5
<1> HIDE DEF row, opened
<1>7. feedback' \in [Rep!Directions -> Rep!Feedback \cup {NoOne}]
    BY <1>1, <1>3, <1>4, <1>5, <1>6
<1>8. feedback'[d] = row /\ (Rep!Stored(t, to, from) => feedback'[e] = opened)
    BY <1>1, <1>3, <1>5, <1>6 DEF Rep!ReputationTypeOK
<1>9. \A x \in Rep!Directions : x # d /\ (x # e \/ ~Rep!Stored(t, to, from)) => feedback'[x] = feedback[x]
    BY <1>1, <1>3, <1>5, <1>6 DEF Rep!ReputationTypeOK
<1>10. Rep!Stored(t, to, from) => Opened(e)
    BY <1>4, <1>8 DEF Opened
<1> QED BY <1>7, <1>8, <1>9, <1>10 DEF row, RowsAfter

(* The service shows a submission at once exactly when an agent with the   *)
(* platform's key gave it.                                                 *)
LEMMA SubmissionIsAllowed ==
    ASSUME MembersInv, NEW p \in Processes, NEW t \in Tasks, NEW to \in AgentIds,
           NEW c \in Categories, NEW r \in Ratings, SubmitFeedback(p, t, to, c, r)
    PROVE  /\ client[p].id \in Registered /\ to \in Registered
           /\ client[p].id = client[Service].id <=> client[p].id \in PlatformIds
           /\ Rep!Submit(t, client[p].id, to, c, r, client[p].id = client[Service].id)
           /\ UNCHANGED idVars
<1>1. client[Service].id # NoOne /\ client[p].id # NoOne
    BY MembersConstants DEF MembersInv, IdInv, Searching, SubmitFeedback
<1> QED BY <1>1, PlatformById DEF SubmitFeedback, Verified, MembersInv

LEMMA SubmitKeeps ==
    ASSUME MembersInv, NEW p \in Processes, NEW t \in Tasks, NEW to \in AgentIds,
           NEW c \in Categories, NEW r \in Ratings, SubmitFeedback(p, t, to, c, r)
    PROVE  MembersInv'
<1>2. PICK from \in AgentIds, force \in BOOLEAN :
         from = client[p].id /\ force = (from = client[Service].id)
    BY SubmissionIsAllowed DEF Registered
<1>1. /\ from \in Registered /\ to \in Registered
      /\ force <=> from \in PlatformIds
      /\ Rep!Submit(t, from, to, c, r, force)
    BY <1>2, SubmissionIsAllowed
<1>3. IdInv' /\ Registered' = Registered /\ PlatformIds' = PlatformIds
  <2>1. UNCHANGED idVars
      BY SubmissionIsAllowed
  <2>2. Registered' = Registered /\ PlatformIds' = PlatformIds
      BY <2>1 DEF idVars, Registered, PlatformIds
  <2>3. [IdentityNext]_idVars
      BY <2>1
  <2> QED BY <2>2, <2>3, IdentityStepKeeps DEF MembersInv
<1>4. RowsAfter(t, from, to, c, r, force)
  <2>1. Rep!ReputationTypeOK
      BY DEF MembersInv
  <2> QED BY <1>1, <2>1, SubmittedRows
<1>5. from # to /\ ~Rep!Stored(t, from, to)
    BY <1>1 DEF Rep!Submit, Rep!MaySubmit
<1>6. Rep!ReputationTypeOK'
    BY <1>4 DEF RowsAfter, Rep!ReputationTypeOK
<1>7. Rep!Stored(t, from, to)'
  <2>1. feedback'[<<t, from, to>>].category = c
      BY <1>4 DEF RowsAfter
  <2>2. feedback'[<<t, from, to>>] \in Rep!Feedback
    <3>1. (force \/ Rep!Stored(t, to, from)) \in BOOLEAN
        OBVIOUS
    <3> QED BY <1>4, <3>1 DEF RowsAfter, Rep!Feedback
  <2> QED BY <2>2, MembersConstants DEF Rep!Stored
<1>8. Rep!Stored(t, to, from) =>
         Rep!Stored(t, to, from)' /\ feedback'[<<t, to, from>>].visible = TRUE
  <2> SUFFICES ASSUME Rep!Stored(t, to, from)
               PROVE  Rep!Stored(t, to, from)' /\ feedback'[<<t, to, from>>].visible = TRUE
      OBVIOUS
  <2>1. Opened(<<t, to, from>>)
      BY <1>4 DEF RowsAfter
  <2> QED BY <2>1, MembersConstants DEF Rep!Stored, Opened
<1>9. \A u \in Tasks, a, b \in AgentIds :
         <<u, a, b>> # <<t, from, to>> =>
            /\ Rep!Stored(u, a, b)' <=> Rep!Stored(u, a, b)
            /\ <<u, a, b>> # <<t, to, from>> \/ ~Rep!Stored(t, to, from)
                  => feedback'[<<u, a, b>>] = feedback[<<u, a, b>>]
    BY <1>1, <1>4, <1>8 DEF RowsAfter, Rep!Stored, Rep!Directions
<1>10. RatersRegistered'
    BY <1>1, <1>3, <1>9 DEF MembersInv, RatersRegistered
<1>11. VisibleIffMutual'
  <2> SUFFICES ASSUME NEW u \in Tasks, NEW a \in AgentIds, NEW b \in AgentIds,
                      Rep!Stored(u, a, b)'
               PROVE  feedback'[<<u, a, b>>].visible <=> a \in PlatformIds' \/ Rep!Stored(u, b, a)'
      BY DEF VisibleIffMutual, Rep!ShownIffMutual
  <2>1. CASE <<u, a, b>> = <<t, from, to>>
    <3>1. Rep!Stored(t, to, from)' <=> Rep!Stored(t, to, from)
        BY <1>1, <1>5, <1>9
    <3>2. feedback'[<<t, from, to>>].visible = (force \/ Rep!Stored(t, to, from))
        BY <1>4 DEF RowsAfter
    <3> QED BY <1>1, <1>3, <2>1, <3>1, <3>2
  <2>2. CASE <<u, a, b>> = <<t, to, from>>
    <3>1. Rep!Stored(t, to, from)
        BY <1>1, <1>5, <1>9, <2>2
    <3> QED BY <1>7, <1>8, <2>2, <3>1
  <2>3. CASE <<u, a, b>> # <<t, from, to>> /\ <<u, a, b>> # <<t, to, from>>
    <3>1. <<u, b, a>> # <<t, from, to>>
        BY <2>3
    <3>2. Rep!Stored(u, a, b) /\ (Rep!Stored(u, b, a)' <=> Rep!Stored(u, b, a))
        BY <1>9, <2>3, <3>1
    <3>3. feedback'[<<u, a, b>>] = feedback[<<u, a, b>>]
        BY <1>9, <2>3
    <3> QED BY <1>3, <3>2, <3>3 DEF MembersInv, VisibleIffMutual, Rep!ShownIffMutual
  <2> QED BY <2>1, <2>2, <2>3
<1> QED BY <1>3, <1>6, <1>10, <1>11 DEF MembersInv

(* Ratings through a submission. *)
LEMMA SubmitKeepsRatings ==
    ASSUME MembersInv, NEW p \in Processes, NEW t \in Tasks, NEW to \in AgentIds,
           NEW c \in Categories, NEW r \in Ratings, SubmitFeedback(p, t, to, c, r),
           NEW d \in Rep!Directions, feedback[d] # NoOne
    PROVE  Rep!Keeps(feedback[d], feedback'[d])
<1>1. PICK from \in AgentIds, force \in BOOLEAN :
         from = client[p].id /\ force = (from = client[Service].id)
    BY SubmissionIsAllowed DEF Registered
<1>2. Rep!Submit(t, from, to, c, r, force)
    BY <1>1, SubmissionIsAllowed
<1>3. RowsAfter(t, from, to, c, r, force)
  <2>1. Rep!ReputationTypeOK
      BY DEF MembersInv
  <2> QED BY <1>2, <2>1, SubmittedRows
<1>4. d # <<t, from, to>>
    BY <1>2 DEF Rep!Submit, Rep!MaySubmit, Rep!Stored
<1>5. feedback[d] \in Rep!Feedback
    BY DEF MembersInv, Rep!ReputationTypeOK
<1>6. CASE d = <<t, to, from>>
  <2>1. Opened(d)
      BY <1>3, <1>6 DEF RowsAfter, Rep!Stored
  <2> QED BY <2>1, MembersConstants DEF Rep!Keeps, Opened
<1>7. CASE d # <<t, to, from>>
    BY <1>3, <1>4, <1>7 DEF RowsAfter, Rep!Keeps
<1> QED BY <1>6, <1>7

-----------------------------------------------------------------------------
LEMMA MembersInitially == MembersInit => MembersInv
<1> SUFFICES ASSUME MembersInit PROVE MembersInv
    OBVIOUS
<1>1. \A t \in Tasks, a, b \in AgentIds : ~Rep!Stored(t, a, b)
    BY DEF MembersInit, Rep!ReputationInit, Rep!Stored, Rep!Directions
<1>2. Rep!ReputationTypeOK
    BY DEF MembersInit, Rep!ReputationInit, Rep!ReputationTypeOK
<1> QED BY <1>1, <1>2, IdentityInitially
        DEF MembersInit, MembersInv, RatersRegistered, VisibleIffMutual, Rep!ShownIffMutual

LEMMA MembersStepKeeps == MembersInv /\ [MembersNext]_memberVars => MembersInv'
<1> SUFFICES ASSUME MembersInv, [MembersNext]_memberVars PROVE MembersInv'
    OBVIOUS
<1>1. CASE [IdentityNext]_idVars /\ UNCHANGED feedback
    BY <1>1, IdentityStepKeeps, IdentityOnlyAdds, IdentityKeepsFeedback DEF MembersInv
<1>2. ASSUME NEW p \in Processes, NEW t \in Tasks, NEW to \in AgentIds,
             NEW c \in Categories, NEW r \in Ratings, SubmitFeedback(p, t, to, c, r)
      PROVE  MembersInv'
    BY <1>2, SubmitKeeps
<1> QED BY <1>1, <1>2 DEF MembersNext, memberVars

(* The gateway's agents and feedback and what the programs hold keep their *)
(* types, and the invariant behind the other theorems holds.               *)
THEOREM MembersInvariant == MembersSpec => []MembersInv
<1> QED BY MembersInitially, MembersStepKeeps, PTL DEF MembersSpec

(* Identity's rows, the programs and the feedback rows keep their types.   *)
THEOREM MembersTypes == MembersSpec => []MembersTypeOK
<1>1. MembersInv => MembersTypeOK
    BY DEF MembersInv, IdInv, MembersTypeOK
<1> QED BY <1>1, MembersInvariant, PTL

(* One key, one agent id (routers/agents.py register_agent, gateway        *)
(* register_agent, mixins/identity.py): for any number of programs, seconds*)
(* and faults.                                                             *)
THEOREM Identification == MembersSpec => []OneIdPerKey
<1>1. MembersInv => OneIdPerKey
  <2> SUFFICES ASSUME MembersInv, NEW p \in Processes, NEW q \in Processes,
                      client[p].id # NoOne, client[q].id # NoOne
               PROVE  client[p].id = client[q].id <=> KeyOf[p] = KeyOf[q]
      BY DEF OneIdPerKey
  <2>1. /\ client[p].id \in Registered /\ agents[client[p].id].key = KeyOf[p]
        /\ client[q].id \in Registered /\ agents[client[q].id].key = KeyOf[q]
      BY DEF MembersInv, IdInv, HoldsOwnRow
  <2> QED BY <2>1 DEF MembersInv, IdInv, KeysUnique
<1> QED BY <1>1, MembersInvariant, PTL

(* A program whose key is taken always finds its row. *)
THEOREM ScanFinds == MembersSpec => []ScanSucceeds
<1>1. MembersInv => ScanSucceeds
    BY DEF MembersInv, IdInv, Searching, ScanSucceeds
<1> QED BY <1>1, MembersInvariant, PTL

(* Feedback is visible exactly when it is the platform's or mutual. *)
THEOREM Visibility == MembersSpec => []VisibleIffMutual
<1>1. MembersInv => VisibleIffMutual
    BY DEF MembersInv
<1> QED BY <1>1, MembersInvariant, PTL

(* One rating of a counterpart per task and key. *)
THEOREM OneVoice == MembersSpec => []OneRatingPerOwner
<1>1. MembersInv => OneRatingPerOwner
    BY DEF MembersInv, IdInv, KeysUnique, OneRatingPerOwner
<1> QED BY <1>1, MembersInvariant, PTL

(* A rating once stored stays. *)
THEOREM RatingsStay == MembersSpec => RatingsImmutable
<1>1. MembersInv /\ [MembersNext]_memberVars =>
        [\A d \in Rep!Directions : feedback[d] # NoOne => Rep!Keeps(feedback[d], feedback'[d])]_memberVars
  <2> SUFFICES ASSUME MembersInv, MembersNext, NEW d \in Rep!Directions, feedback[d] # NoOne
               PROVE  Rep!Keeps(feedback[d], feedback'[d])
      OBVIOUS
  <2>1. CASE UNCHANGED feedback
      BY <2>1 DEF Rep!Keeps
  <2>2. ASSUME NEW p \in Processes, NEW t \in Tasks, NEW to \in AgentIds,
               NEW c \in Categories, NEW r \in Ratings, SubmitFeedback(p, t, to, c, r)
        PROVE  Rep!Keeps(feedback[d], feedback'[d])
      BY <2>2, SubmitKeepsRatings
  <2> QED BY <2>1, <2>2 DEF MembersNext
<1> QED BY <1>1, MembersInvariant, PTL DEF MembersSpec, RatingsImmutable
=============================================================================
