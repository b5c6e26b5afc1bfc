----------------------------- MODULE ProgramProofs -----------------------------
(*****************************************************************************)
(* What single programs keep, for all values of their constants. Each part   *)
(* gives a program an inductive invariant and shows that every step of that  *)
(* program preserves it; the theorem carries it over to ProgramSpec.         *)
(*****************************************************************************)
EXTENDS Programs, Sequences, FiniteSetTheorems, WellFoundedInduction, TLAPS

(*****************************************************************************)
(* Browsing (HelperService).                                                 *)
(*****************************************************************************)
Deletion == [op : {"delete_deployments"}, stage : {"Polkit", "Run", "Deleting"}, id : Systems]
Browse == [op : {"begin_browse", "set_deployment_pinned"}, stage : {"Polkit", "Run"}, id : Systems]
Admission == [op : {"list_files"}, stage : {"Lease"}, id : Systems, token : Tokens]
Reading == [op : {"list_files"}, stage : {"Check", "Open", "Read"}, id : Systems, checked : Nat]

CallTypes == {Helper!NoCall} \cup Deletion \cup Browse \cup Admission \cup Reading

Grant == [token : Tokens, pid : Windows, id : Systems, at : Nat, ended : Nat]

HelperType ==
  /\ moment \in 0 .. LastMoment
  /\ call \in [Windows -> CallTypes]
  /\ system \in [Systems -> {"Present", "Deleting", "Gone"}]
  /\ protected \subseteq Systems
  /\ grants \subseteq Grant
  /\ DOMAIN leases \subseteq Tokens

\* Every lease in memory is one that an administrator granted, and no token is given
\* out twice.
LeasesGranted ==
  /\ \A t \in DOMAIN leases : \E g \in grants :
       /\ g.token = t /\ leases[t] = [pid |-> g.pid, id |-> g.id, expires |-> g.at + LeaseTime]
       /\ g.ended = LastMoment
  /\ \A g, h \in grants : g.token = h.token => g = h
  /\ \A g \in grants : g.at <= moment

\* A call that passed the check was covered by a grant at that moment.
CheckCovered(v) ==
  /\ v.checked <= moment
  /\ \E g \in grants : /\ g.pid = v.pid /\ g.id = v.id
                       /\ v.checked \in g.at .. g.ended /\ v.checked < g.at + LeaseTime

ChecksCovered ==
  \A c \in Windows : call[c] \in Reading =>
    CheckCovered([pid |-> c, id |-> call[c].id, checked |-> call[c].checked])

\* One deletion at a time, of a snapshot nobody reads or protects.
DeletionsApart ==
  /\ \A c \in Windows : Helper!At(c, "delete_deployments", "Deleting") =>
       /\ system[call[c].id] = "Deleting"
       /\ \A d \in Windows : Helper!At(d, "delete_deployments", "Deleting") => d = c
  /\ \A c \in Windows : Helper!At(c, "list_files", "Read") =>
       system[call[c].id] # "Gone" /\ ~Helper!DeletionRuns(call[c].id)
  /\ Helper!ProtectedStays

HelperInv == HelperType /\ LeasesGranted /\ ChecksCovered /\ DeletionsApart

LEMMA HelperConstantsHold == LeaseTime \in Nat \ {0} /\ LastMoment \in Nat
BY ProgramsConstants DEF Helper!HelperConstants

LEMMA HelperStarts == Helper!Init => HelperInv
<1> SUFFICES ASSUME Helper!Init PROVE HelperInv
  OBVIOUS
<1>0. \A c \in Windows : call[c] = Helper!NoCall
  BY DEF Helper!Init
<1>1. HelperType
  BY HelperConstantsHold DEF Helper!Init, HelperType, CallTypes
<1>2. LeasesGranted
  BY DEF Helper!Init, LeasesGranted
<1>3. ChecksCovered
  BY <1>0 DEF ChecksCovered, Helper!NoCall, Reading
<1>4. DeletionsApart
  BY <1>0 DEF Helper!Init, DeletionsApart, Helper!NoCall, Helper!At, Helper!ProtectedStays
<1> QED
  BY <1>1, <1>2, <1>3, <1>4 DEF HelperInv

\* The kinds of call, told apart by what they do and how far they are.
LEMMA CallKinds ==
  ASSUME HelperType, NEW c \in Windows
  PROVE  /\ call[c] \in Reading <=> call[c].op = "list_files" /\ call[c].stage # "Lease"
         /\ call[c] \in Admission <=> call[c].op = "list_files" /\ call[c].stage = "Lease"
         /\ call[c] \in Deletion <=> call[c].op = "delete_deployments"
         /\ call[c] \in Browse <=> call[c].op \in {"begin_browse", "set_deployment_pinned"}
         /\ call[c] \in CallTypes
BY DEF HelperType, CallTypes, Helper!NoCall, Reading, Admission, Deletion, Browse

\* A call that moves on to another stage keeps what it is for.
LEMMA CallGoesTo ==
  ASSUME HelperType, NEW c \in Windows, NEW next, Helper!GoTo(c, next),
         \/ call[c] \in Deletion /\ next \in {"Run", "Deleting"}
         \/ call[c] \in Browse /\ next = "Run"
         \/ call[c] \in Reading /\ next \in {"Open", "Read"}
  PROVE  /\ call' \in [Windows -> CallTypes]
         /\ call'[c] = [call[c] EXCEPT !.stage = next]
         /\ call'[c].op = call[c].op /\ call'[c].stage = next /\ call'[c].id = call[c].id
         /\ call[c] \in Reading => call'[c] \in Reading /\ call'[c].checked = call[c].checked
         /\ \A d \in Windows \ {c} : call'[d] = call[d]
<1> DEFINE v == [call[c] EXCEPT !.stage = next]
<1>1. call' = [call EXCEPT ![c] = v] /\ call \in [Windows -> CallTypes]
  BY DEF Helper!GoTo, HelperType
<1>2. CASE call[c] \in Deletion /\ next \in {"Run", "Deleting"}
  <2>1. v \in Deletion /\ v.op = call[c].op /\ v.stage = next /\ v.id = call[c].id
    BY <1>2 DEF Deletion
  <2>2. call[c] \notin Reading
    BY <1>2 DEF Deletion, Reading
  <2> QED
    BY <1>1, <2>1, <2>2 DEF CallTypes
<1>3. CASE call[c] \in Browse /\ next = "Run"
  <2>1. v \in Browse /\ v.op = call[c].op /\ v.stage = next /\ v.id = call[c].id
    BY <1>3 DEF Browse
  <2>2. call[c] \notin Reading
    BY <1>3 DEF Browse, Reading
  <2> QED
    BY <1>1, <2>1, <2>2 DEF CallTypes
<1>4. CASE call[c] \in Reading /\ next \in {"Open", "Read"}
  <2>1. /\ v \in Reading /\ v.op = call[c].op /\ v.stage = next /\ v.id = call[c].id
        /\ v.checked = call[c].checked
    BY <1>4 DEF Reading
  <2> QED
    BY <1>1, <2>1 DEF CallTypes
<1> QED
  BY <1>2, <1>3, <1>4

LEMMA CallIsAnswered ==
  ASSUME HelperType, NEW c \in Windows, Helper!Answer(c)
  PROVE  /\ call' \in [Windows -> CallTypes]
         /\ call'[c] = Helper!NoCall /\ call'[c].op = "None" /\ call'[c] \notin Reading
         /\ \A d \in Windows \ {c} : call'[d] = call[d]
BY DEF HelperType, Helper!Answer, Helper!NoCall, CallTypes, Reading

\* A step that neither grants nor takes back keeps every check covered, if the call
\* that moves still is.
LEMMA ChecksKept ==
  ASSUME HelperInv, UNCHANGED <<moment, grants>>, NEW c \in Windows,
         \A d \in Windows \ {c} : call'[d] = call[d],
         \/ call'[c] \notin Reading
         \/ call[c] \in Reading /\ call'[c].id = call[c].id /\ call'[c].checked = call[c].checked
  PROVE  ChecksCovered'
BY DEF HelperInv, ChecksCovered, CheckCovered

\* A step that changes no snapshot keeps deletions and readers apart, if the call that
\* moves neither begins to delete nor to read.
LEMMA ApartKept ==
  ASSUME HelperInv, UNCHANGED system, NEW c \in Windows,
         \A d \in Windows \ {c} : call'[d] = call[d],
         protected' = protected,
         call'[c].op # "delete_deployments" \/ call'[c].stage # "Deleting",
         call'[c].op # "list_files" \/ call'[c].stage # "Read"
  PROVE  DeletionsApart'
BY DEF HelperInv, DeletionsApart, Helper!At, Helper!DeletionRuns, Helper!ProtectedStays

LEMMA RequestsPreserve ==
  ASSUME HelperInv, NEW c \in Windows, Helper!Request(c) \/ Helper!RequestFiles(c)
  PROVE  HelperInv'
<1> USE DEF HelperInv
<1>0. UNCHANGED <<moment, leases, system, protected, grants>>
  BY DEF Helper!Request, Helper!RequestFiles
<1>1. PICK v \in Browse \cup Deletion \cup Admission :
        call' = [call EXCEPT ![c] = v] /\ v.stage \in {"Polkit", "Lease"}
  <2>1. ASSUME NEW op \in DOMAIN Helper!PolkitAction, NEW id \in Systems
        PROVE  LET v == [op |-> op, stage |-> "Polkit", id |-> id] IN
               v \in Browse \cup Deletion \cup Admission /\ v.stage \in {"Polkit", "Lease"}
    BY DEF Helper!PolkitAction, Browse, Deletion
  <2>2. ASSUME NEW token \in Tokens, NEW id \in Systems
        PROVE  LET v == [op |-> "list_files", stage |-> "Lease", id |-> id, token |-> token] IN
               v \in Browse \cup Deletion \cup Admission /\ v.stage \in {"Polkit", "Lease"}
    BY DEF Admission
  <2>3. CASE Helper!Request(c)
    BY <2>1, <2>3, Zenon DEF Helper!Request
  <2>4. CASE Helper!RequestFiles(c)
    BY <2>2, <2>4, Zenon DEF Helper!RequestFiles
  <2> QED
    BY <2>3, <2>4
<1>2. /\ call' \in [Windows -> CallTypes] /\ call'[c] = v
      /\ \A d \in Windows \ {c} : call'[d] = call[d]
  BY <1>1 DEF HelperType, CallTypes
<1>3. v \notin Reading
  BY <1>1 DEF Browse, Deletion, Admission, Reading
<1>4. HelperType' /\ LeasesGranted'
  BY <1>0, <1>2 DEF HelperType, LeasesGranted
<1> QED
  BY <1>0, <1>1, <1>2, <1>3, <1>4, ChecksKept, ApartKept

LEMMA AuthorizationPreserves ==
  ASSUME HelperInv, NEW c \in Windows, Helper!CheckAuthorization(c)
  PROVE  HelperInv'
<1> USE DEF HelperInv
<1>0. UNCHANGED <<moment, leases, system, protected, grants>> /\ call[c].stage = "Polkit"
  BY DEF Helper!CheckAuthorization
<1>1. call[c] \in Browse \cup Deletion /\ call[c] \notin Reading
  BY <1>0 DEF HelperType, CallTypes, Helper!NoCall, Browse, Deletion, Admission, Reading
<1>2. /\ call' \in [Windows -> CallTypes]
      /\ call'[c].stage = "Run" \/ call'[c].op = "None"
      /\ call'[c] \notin Reading
      /\ \A d \in Windows \ {c} : call'[d] = call[d]
  <2>1. CASE Helper!GoTo(c, "Run")
    <3>1. /\ call' \in [Windows -> CallTypes] /\ call'[c].stage = "Run"
          /\ \A d \in Windows \ {c} : call'[d] = call[d]
      BY <1>1, <2>1, CallGoesTo
    <3> QED
      BY <3>1 DEF Reading
  <2>2. CASE Helper!Answer(c)
    BY <2>2, CallIsAnswered
  <2> QED
    BY <2>1, <2>2 DEF Helper!CheckAuthorization
<1>3. HelperType' /\ LeasesGranted'
  BY <1>0, <1>2 DEF HelperType, LeasesGranted
<1> QED
  BY <1>0, <1>2, <1>3, ChecksKept, ApartKept

LEMMA BeginPreserves ==
  ASSUME HelperInv, NEW c \in Windows, Helper!BeginBrowse(c)
  PROVE  HelperInv'
<1> USE DEF HelperInv
<1>0. /\ UNCHANGED <<moment, system, protected>> /\ Helper!Answer(c)
      /\ call[c].op = "begin_browse"
  BY DEF Helper!BeginBrowse, Helper!At
<1>1. /\ call' \in [Windows -> CallTypes] /\ call'[c].op = "None" /\ call'[c] \notin Reading
      /\ \A d \in Windows \ {c} : call'[d] = call[d]
  BY <1>0, CallIsAnswered
<1>2. DeletionsApart'
  BY <1>0, <1>1, ApartKept
<1>3. CASE UNCHANGED <<leases, grants>>
  <2>1. HelperType' /\ LeasesGranted'
    BY <1>0, <1>1, <1>3 DEF HelperType, LeasesGranted
  <2> QED
    BY <1>0, <1>1, <1>2, <1>3, <2>1, ChecksKept
<1>4. ASSUME NEW token \in Tokens \ {g.token : g \in grants},
             leases' = [t \in DOMAIN leases \cup {token} |->
                          IF t = token THEN Helper!Lease(c, call[c].id) ELSE leases[t]],
             grants' = grants \cup
               {[token |-> token, pid |-> c, id |-> call[c].id, at |-> moment,
                 ended |-> LastMoment]}
      PROVE  HelperInv'
  <2> DEFINE new == [token |-> token, pid |-> c, id |-> call[c].id, at |-> moment,
                     ended |-> LastMoment]
  <2>1. call[c].id \in Systems
    <3>1. call[c] \in Browse
      BY <1>0, CallKinds
    <3> QED
      BY <3>1 DEF Browse
  <2>2. moment \in Nat /\ new \in Grant
    BY <2>1, HelperConstantsHold DEF HelperType, Grant
  <2>3. HelperType'
    BY <1>0, <1>1, <1>4, <2>2 DEF HelperType
  <2>4. \A g \in grants : g.token # token
    BY <1>4
  <2>5. \A g, h \in grants' : g.token = h.token => g = h
    BY <1>4, <2>4 DEF LeasesGranted
  <2>6. ASSUME NEW t \in DOMAIN leases'
        PROVE  \E g \in grants' :
                 /\ g.token = t
                 /\ leases'[t] = [pid |-> g.pid, id |-> g.id, expires |-> g.at + LeaseTime]
                 /\ g.ended = LastMoment
    <3>1. CASE t = token
      <4>1. new \in grants' /\ leases'[t] = Helper!Lease(c, call[c].id)
        BY <1>4, <3>1
      <4>2. leases'[t] = [pid |-> new.pid, id |-> new.id, expires |-> new.at + LeaseTime]
        BY <4>1 DEF Helper!Lease
      <4> QED
        BY <3>1, <4>1, <4>2
    <3>2. CASE t # token
      <4>1. t \in DOMAIN leases /\ leases'[t] = leases[t]
        BY <1>4, <3>2
      <4>2. PICK g \in grants :
              /\ g.token = t
              /\ leases[t] = [pid |-> g.pid, id |-> g.id, expires |-> g.at + LeaseTime]
              /\ g.ended = LastMoment
        BY <4>1 DEF LeasesGranted
      <4> QED
        BY <1>4, <4>1, <4>2
    <3> QED
      BY <3>1, <3>2
  <2>7. ChecksCovered'
    BY <1>0, <1>1, <1>4 DEF ChecksCovered, CheckCovered
  <2>8. \A g \in grants' : g.at <= moment'
    BY <1>0, <1>4, <2>2 DEF LeasesGranted
  <2> QED
    BY <1>2, <2>3, <2>5, <2>6, <2>7, <2>8 DEF LeasesGranted
<1> QED
  BY <1>3, <1>4 DEF Helper!BeginBrowse

LEMMA EndPreserves ==
  ASSUME HelperInv, NEW c \in Windows, Helper!EndBrowse(c)
  PROVE  HelperInv'
<1> USE DEF HelperInv
<1>0. UNCHANGED <<moment, call, system, protected>>
  BY DEF Helper!EndBrowse
<1>1. PICK token \in DOMAIN leases :
        /\ leases' = [t \in DOMAIN leases \ {token} |-> leases[t]]
        /\ grants' = {IF g.token = token THEN [g EXCEPT !.ended = moment] ELSE g : g \in grants}
  BY DEF Helper!EndBrowse
<1> DEFINE Ended(g) == IF g.token = token THEN [g EXCEPT !.ended = moment] ELSE g
<1>2. /\ moment \in Nat /\ grants' = {Ended(g) : g \in grants}
      /\ \A g \in grants :
           /\ Ended(g) \in Grant /\ Ended(g).token = g.token /\ Ended(g).at = g.at
           /\ Ended(g).pid = g.pid /\ Ended(g).id = g.id
           /\ Ended(g).ended = IF g.token = token THEN moment ELSE g.ended
  BY <1>1, HelperConstantsHold DEF HelperType, Grant
<1>3. HelperType'
  BY <1>0, <1>1, <1>2 DEF HelperType
<1>4. LeasesGranted'
  <2>1. ASSUME NEW g \in grants', NEW h \in grants', g.token = h.token PROVE g = h
    <3>1. PICK v \in grants, w \in grants : g = Ended(v) /\ h = Ended(w)
      BY <1>2
    <3>2. v.token = w.token
      BY <1>2, <2>1, <3>1
    <3> QED
      BY <3>1, <3>2 DEF LeasesGranted
  <2>2. ASSUME NEW t \in DOMAIN leases'
        PROVE  \E g \in grants' :
                 /\ g.token = t
                 /\ leases'[t] = [pid |-> g.pid, id |-> g.id, expires |-> g.at + LeaseTime]
                 /\ g.ended = LastMoment
    <3>1. t \in DOMAIN leases /\ t # token /\ leases'[t] = leases[t]
      BY <1>1
    <3> QED
      BY <1>2, <3>1 DEF LeasesGranted
  <2>3. ASSUME NEW g \in grants' PROVE g.at <= moment'
    <3>1. PICK v \in grants : g = Ended(v)
      BY <1>2
    <3> QED
      BY <1>0, <1>2, <3>1 DEF LeasesGranted
  <2> QED
    BY <2>1, <2>2, <2>3 DEF LeasesGranted
<1>5. ChecksCovered'
  <2>1. ASSUME NEW v, v.checked \in Nat, CheckCovered(v) PROVE CheckCovered(v)'
    <3>1. PICK g \in grants : /\ g.pid = v.pid /\ g.id = v.id /\ v.checked <= moment
                              /\ v.checked \in g.at .. g.ended /\ v.checked < g.at + LeaseTime
      BY <2>1 DEF CheckCovered
    <3>2. v.checked \in Ended(g).at .. Ended(g).ended
      BY <1>2, <2>1, <3>1 DEF HelperType, Grant
    <3> QED
      BY <1>0, <1>2, <3>1, <3>2 DEF CheckCovered
  <2> QED
    BY <1>0, <2>1 DEF ChecksCovered, Reading
<1>6. DeletionsApart'
  BY <1>0 DEF DeletionsApart, Helper!At, Helper!DeletionRuns, Helper!ProtectedStays
<1> QED
  BY <1>3, <1>4, <1>5, <1>6

LEMMA ValidationPreserves ==
  ASSUME HelperInv, NEW c \in Windows, Helper!ValidateLease(c)
  PROVE  HelperInv'
<1> USE DEF HelperInv
<1>0. /\ UNCHANGED <<moment, system, protected, grants>>
      /\ call[c].op = "list_files" /\ call[c].stage = "Lease"
      /\ leases' = [t \in Helper!LiveLeases |-> leases[t]]
      /\ moment \in Nat /\ Helper!LiveLeases \subseteq DOMAIN leases
  BY HelperConstantsHold
     DEF Helper!ValidateLease, Helper!At, HelperType, Helper!LiveLeases
<1>1. HelperType /\ call[c] \in Admission /\ call[c].id \in Systems
  BY <1>0, CallKinds DEF Admission
<1>2. LeasesGranted'
  BY <1>0 DEF LeasesGranted
<1>3. CASE Helper!Answer(c)
  <2>1. /\ call' \in [Windows -> CallTypes] /\ call'[c].op = "None" /\ call'[c] \notin Reading
        /\ \A d \in Windows \ {c} : call'[d] = call[d]
    BY <1>3, CallIsAnswered
  <2>2. HelperType'
    BY <1>0, <2>1 DEF HelperType
  <2> QED
    BY <1>0, <1>2, <2>1, <2>2, ChecksKept, ApartKept
<1>4. ASSUME call[c].token \in Helper!LiveLeases,
             leases[call[c].token].pid = c, leases[call[c].token].id = call[c].id,
             call' = [call EXCEPT ![c] = [op |-> "list_files", stage |-> "Check",
                                          id |-> call[c].id, checked |-> moment]]
      PROVE  HelperInv'
  <2> DEFINE v == [op |-> "list_files", stage |-> "Check", id |-> call[c].id, checked |-> moment]
             token == call[c].token
  <2>1. v \in Reading
    BY <1>0, <1>1 DEF Reading
  <2>2. /\ call' \in [Windows -> CallTypes] /\ call'[c] = v
        /\ \A d \in Windows \ {c} : call'[d] = call[d]
    BY <1>4, <2>1 DEF HelperType, CallTypes
  <2>3. HelperType'
    BY <1>0, <2>2 DEF HelperType
  <2>4. token \in DOMAIN leases /\ leases[token].expires > moment
    BY <1>4 DEF Helper!LiveLeases
  <2>5. PICK g \in grants :
          /\ leases[token] = [pid |-> g.pid, id |-> g.id, expires |-> g.at + LeaseTime]
          /\ g.ended = LastMoment
    BY <2>4 DEF LeasesGranted
  <2>6. g.pid = c /\ g.id = call[c].id /\ g.at \in Nat /\ moment < g.at + LeaseTime
    BY <1>0, <1>4, <2>4, <2>5, HelperConstantsHold DEF HelperType, Grant
  <2>7. g.at <= moment
    BY <2>5 DEF LeasesGranted
  <2>8. CheckCovered([pid |-> c, id |-> call[c].id, checked |-> moment])
    BY <1>0, <2>5, <2>6, <2>7, HelperConstantsHold DEF CheckCovered, HelperType
  <2>9. ChecksCovered'
    <3>1. ASSUME NEW d \in Windows, call'[d] \in Reading
          PROVE  CheckCovered([pid |-> d, id |-> call'[d].id, checked |-> call'[d].checked])
      BY <2>2, <2>8, <3>1 DEF ChecksCovered
    <3> QED
      BY <1>0, <3>1 DEF ChecksCovered, CheckCovered
  <2>10. DeletionsApart'
    BY <1>0, <2>2, ApartKept
  <2> QED
    BY <1>2, <2>3, <2>9, <2>10
<1> QED
  BY <1>3, <1>4, Zenon DEF Helper!ValidateLease

LEMMA ReadersPreserve ==
  ASSUME HelperInv, NEW c \in Windows,
         Helper!CheckAvailable(c) \/ Helper!OpenSnapshot(c) \/ Helper!ReadSnapshot(c)
  PROVE  HelperInv'
<1> USE DEF HelperInv
<1>0. /\ UNCHANGED <<moment, leases, system, protected, grants>>
      /\ call[c].op = "list_files" /\ call[c].stage \in {"Check", "Open", "Read"}
  BY DEF Helper!CheckAvailable, Helper!OpenSnapshot, Helper!ReadSnapshot, Helper!At
<1>1. HelperType /\ call[c] \in Reading
  BY <1>0, CallKinds
<1>2. LeasesGranted'
  BY <1>0 DEF LeasesGranted
<1>3. CASE Helper!Answer(c)
  <2>1. /\ call' \in [Windows -> CallTypes] /\ call'[c].op = "None" /\ call'[c] \notin Reading
        /\ \A d \in Windows \ {c} : call'[d] = call[d]
    BY <1>3, CallIsAnswered
  <2>2. HelperType'
    BY <1>0, <2>1 DEF HelperType
  <2> QED
    BY <1>0, <1>2, <2>1, <2>2, ChecksKept, ApartKept
<1>4. ASSUME NEW next \in {"Open", "Read"}, Helper!GoTo(c, next),
             next = "Read" => /\ ~Helper!DeletionRuns(call[c].id)
                              /\ system[call[c].id] # "Gone"
      PROVE  HelperInv'
  <2>1. /\ call' \in [Windows -> CallTypes]
        /\ call'[c] \in Reading /\ call'[c].checked = call[c].checked
        /\ call'[c].op = "list_files" /\ call'[c].stage = next /\ call'[c].id = call[c].id
        /\ \A d \in Windows \ {c} : call'[d] = call[d]
    BY <1>0, <1>1, <1>4, CallGoesTo
  <2>2. HelperType'
    BY <1>0, <2>1 DEF HelperType
  <2>3. ChecksCovered'
    BY <1>0, <1>1, <2>1, ChecksKept
  <2>4. \A id : Helper!DeletionRuns(id)' = Helper!DeletionRuns(id)
    BY <1>0, <2>1 DEF Helper!DeletionRuns, Helper!At
  <2>5. DeletionsApart'
    <3>1. \A d \in Windows : Helper!At(d, "delete_deployments", "Deleting")' =>
            Helper!At(d, "delete_deployments", "Deleting") /\ call'[d] = call[d]
      BY <2>1 DEF Helper!At
    <3>2. \A d \in Windows : Helper!At(d, "list_files", "Read")' =>
            system[call'[d].id] # "Gone" /\ ~Helper!DeletionRuns(call'[d].id)
      BY <1>4, <2>1 DEF Helper!At, DeletionsApart
    <3> QED
      BY <1>0, <2>4, <3>1, <3>2 DEF DeletionsApart, Helper!ProtectedStays
  <2> QED
    BY <1>2, <2>2, <2>3, <2>5
<1> QED
  BY <1>3, <1>4 DEF Helper!CheckAvailable, Helper!OpenSnapshot, Helper!ReadSnapshot

LEMMA DeletionPreserves ==
  ASSUME HelperInv, NEW c \in Windows, Helper!DeleteDeployment(c)
  PROVE  HelperInv'
<1> USE DEF HelperInv
<1>0. /\ UNCHANGED <<moment, leases, protected, grants>>
      /\ call[c].op = "delete_deployments" /\ call[c].stage = "Run"
  BY DEF Helper!DeleteDeployment, Helper!At
<1>1. HelperType /\ call[c] \in Deletion /\ call[c].id \in Systems
  BY <1>0, CallKinds DEF Deletion
<1>2. LeasesGranted'
  BY <1>0 DEF LeasesGranted
<1>3. CASE Helper!Answer(c) /\ UNCHANGED system
  <2>1. /\ call' \in [Windows -> CallTypes] /\ call'[c].op = "None" /\ call'[c] \notin Reading
        /\ \A d \in Windows \ {c} : call'[d] = call[d]
    BY <1>3, CallIsAnswered
  <2>2. HelperType'
    BY <1>0, <1>3, <2>1 DEF HelperType
  <2> QED
    BY <1>0, <1>2, <1>3, <2>1, <2>2, ChecksKept, ApartKept
<1>4. ASSUME Helper!GoTo(c, "Deleting"),
             system' = [system EXCEPT ![call[c].id] = "Deleting"],
             ~Helper!OperationRuns, ~Helper!ReadLocked(call[c].id), call[c].id \notin protected
      PROVE  HelperInv'
  <2>1. /\ call' \in [Windows -> CallTypes]
        /\ call'[c].op = "delete_deployments" /\ call'[c].stage = "Deleting"
        /\ call'[c].id = call[c].id
        /\ \A d \in Windows \ {c} : call'[d] = call[d]
    BY <1>0, <1>1, <1>4, CallGoesTo
  <2>2. system' \in [Systems -> {"Present", "Deleting", "Gone"}] /\ system'[call[c].id] = "Deleting"
    BY <1>1, <1>4 DEF HelperType
  <2>3. HelperType'
    BY <1>0, <2>1, <2>2 DEF HelperType
  <2>4. ChecksCovered'
    BY <1>0, <2>1, ChecksKept DEF Reading
  <2>5. \A d \in Windows : ~Helper!At(d, "delete_deployments", "Deleting")
    <3>1. ASSUME NEW d \in Windows, Helper!At(d, "delete_deployments", "Deleting") PROVE FALSE
      <4>1. call[d].id \in Systems
        BY <1>1, <3>1, CallKinds DEF Helper!At, Deletion
      <4> QED
        BY <1>4, <3>1, <4>1 DEF Helper!OperationRuns, Helper!DeletionRuns
    <3> QED
      BY <3>1
  <2>6. \A d \in Windows : Helper!At(d, "delete_deployments", "Deleting")' => d = c
    BY <2>1, <2>5 DEF Helper!At
  <2>7. ASSUME NEW d \in Windows, Helper!At(d, "list_files", "Read")'
        PROVE  /\ system'[call'[d].id] # "Gone"
               /\ \A e \in Windows : Helper!At(e, "delete_deployments", "Deleting")' =>
                    call'[e].id # call'[d].id
    <3>1. d # c /\ call'[d] = call[d] /\ Helper!At(d, "list_files", "Read")
      BY <2>1, <2>7 DEF Helper!At
    <3>2. call[d].id # call[c].id
      BY <1>4, <3>1 DEF Helper!ReadLocked
    <3>3. system'[call[d].id] # "Gone"
      BY <1>4, <3>1, <3>2 DEF DeletionsApart, HelperType
    <3> QED
      BY <2>1, <2>6, <3>1, <3>2, <3>3
  <2>8. Helper!ProtectedStays'
    BY <1>0, <1>4 DEF DeletionsApart, Helper!ProtectedStays, HelperType
  <2>9. DeletionsApart'
    BY <2>1, <2>2, <2>6, <2>7, <2>8 DEF DeletionsApart, Helper!DeletionRuns
  <2> QED
    BY <1>2, <2>3, <2>4, <2>9
<1> QED
  BY <1>3, <1>4 DEF Helper!DeleteDeployment

LEMMA DeletionEndPreserves ==
  ASSUME HelperInv, NEW c \in Windows, Helper!DeletionEnds(c)
  PROVE  HelperInv'
<1> USE DEF HelperInv
<1>0. /\ UNCHANGED <<moment, leases, protected, grants>>
      /\ Helper!At(c, "delete_deployments", "Deleting")
      /\ call[c].op = "delete_deployments" /\ call[c].stage = "Deleting"
  BY DEF Helper!DeletionEnds, Helper!At
<1>1. HelperType /\ call[c] \in Deletion /\ call[c].id \in Systems
  BY <1>0, CallKinds DEF Deletion
<1>2. LeasesGranted'
  BY <1>0 DEF LeasesGranted
<1>3. /\ call' \in [Windows -> CallTypes]
      /\ call'[c] \notin Reading /\ call'[c].stage # "Deleting" /\ call'[c].stage # "Read"
      /\ \A d \in Windows \ {c} : call'[d] = call[d]
  <2>1. CASE Helper!Answer(c)
    <3>1. call'[c] = Helper!NoCall
      BY <1>1, <2>1, CallIsAnswered
    <3> QED
      BY <1>1, <2>1, <3>1, CallIsAnswered DEF Helper!NoCall
  <2>2. ASSUME NEW id \in Systems, call' = [call EXCEPT ![c].stage = "Run", ![c].id = id]
        PROVE  /\ call' \in [Windows -> CallTypes]
               /\ call'[c] \notin Reading /\ call'[c].stage = "Run"
               /\ \A d \in Windows \ {c} : call'[d] = call[d]
    <3> DEFINE v == [call[c] EXCEPT !.stage = "Run", !.id = id]
    <3>1. v \in Deletion /\ v.stage = "Run" /\ v \notin Reading
      BY <1>1 DEF Deletion, Reading
    <3>2. call' = [call EXCEPT ![c] = v]
      BY <1>1, <2>2 DEF HelperType
    <3> QED
      BY <1>1, <3>1, <3>2 DEF HelperType, CallTypes
  <2> QED
    BY <2>1, <2>2 DEF Helper!DeletionEnds
<1>4. /\ system' \in [Systems -> {"Present", "Deleting", "Gone"}]
      /\ \A id \in Systems \ {call[c].id} : system'[id] = system[id]
  BY <1>1 DEF HelperType, Helper!DeletionEnds
<1>5. HelperType'
  BY <1>0, <1>3, <1>4 DEF HelperType
<1>6. ChecksCovered'
  BY <1>0, <1>3, ChecksKept
<1>7. DeletionsApart'
  <2>1. \A d \in Windows : ~Helper!At(d, "delete_deployments", "Deleting")'
    BY <1>0, <1>3 DEF DeletionsApart, Helper!At
  <2>2. ASSUME NEW d \in Windows, Helper!At(d, "list_files", "Read")'
        PROVE  system'[call'[d].id] # "Gone"
    <3>1. d # c /\ call'[d] = call[d] /\ Helper!At(d, "list_files", "Read")
      BY <1>3, <2>2 DEF Helper!At
    <3>2. call[d].id \in Systems
      BY <1>1, <3>1, CallKinds DEF Helper!At, Reading
    <3>3. call[d].id # call[c].id /\ system[call[d].id] # "Gone"
      BY <1>0, <3>1 DEF DeletionsApart, Helper!DeletionRuns
    <3> QED
      BY <1>4, <3>1, <3>2, <3>3
  <2>3. Helper!ProtectedStays'
    <3>1. call[c].id \notin protected
      BY <1>0 DEF DeletionsApart, Helper!ProtectedStays
    <3> QED
      BY <1>0, <1>1, <1>4, <3>1 DEF DeletionsApart, Helper!ProtectedStays, HelperType
  <2> QED
    BY <2>1, <2>2, <2>3 DEF DeletionsApart, Helper!DeletionRuns
<1> QED
  BY <1>2, <1>5, <1>6, <1>7

LEMMA PinningPreserves ==
  ASSUME HelperInv, NEW c \in Windows, Helper!SetDeploymentPinned(c)
  PROVE  HelperInv'
<1> USE DEF HelperInv
<1>0. /\ UNCHANGED <<moment, leases, system, grants>> /\ Helper!Answer(c)
      /\ call[c].op = "set_deployment_pinned"
  BY DEF Helper!SetDeploymentPinned, Helper!At
<1>1. HelperType /\ call[c].id \in Systems
  BY <1>0, CallKinds DEF Browse
<1>2. /\ call' \in [Windows -> CallTypes] /\ call'[c].op = "None" /\ call'[c] \notin Reading
      /\ \A d \in Windows \ {c} : call'[d] = call[d]
  BY <1>0, <1>1, CallIsAnswered
<1>3. protected' \subseteq Systems /\ Helper!ProtectedStays'
  BY <1>0, <1>1
     DEF Helper!SetDeploymentPinned, HelperType, DeletionsApart, Helper!ProtectedStays
<1>4. HelperType' /\ LeasesGranted'
  BY <1>0, <1>2, <1>3 DEF HelperType, LeasesGranted
<1>5. DeletionsApart'
  BY <1>0, <1>2, <1>3 DEF DeletionsApart, Helper!At, Helper!DeletionRuns
<1> QED
  BY <1>0, <1>2, <1>4, <1>5, ChecksKept

LEMMA ClockPreserves ==
  ASSUME HelperInv, Helper!ClockTicks
  PROVE  HelperInv'
<1> USE DEF HelperInv
<1>0. /\ UNCHANGED <<leases, call, system, protected, grants>> /\ moment' = moment + 1
      /\ moment < LastMoment /\ moment \in Nat /\ LastMoment \in Nat
  BY HelperConstantsHold DEF Helper!ClockTicks, HelperType
<1>1. HelperType'
  BY <1>0 DEF HelperType
<1>2. LeasesGranted'
  BY <1>0 DEF LeasesGranted, HelperType, Grant
<1>3. ChecksCovered'
  <2>1. ASSUME NEW v, v.checked \in Nat, CheckCovered(v) PROVE CheckCovered(v)'
    BY <1>0, <2>1 DEF CheckCovered
  <2> QED
    BY <1>0, <2>1 DEF ChecksCovered, Reading
<1>4. DeletionsApart'
  BY <1>0 DEF DeletionsApart, Helper!At, Helper!DeletionRuns, Helper!ProtectedStays
<1> QED
  BY <1>1, <1>2, <1>3, <1>4

LEMMA RestartPreserves ==
  ASSUME HelperInv, Helper!HelperRestarts
  PROVE  HelperInv'
<1> USE DEF HelperInv
<1>0. /\ UNCHANGED <<moment, system, protected>> /\ leases' = <<>> /\ grants' = {}
      /\ call' = [d \in Windows |-> Helper!NoCall]
  BY DEF Helper!HelperRestarts
<1>1. \A c \in Windows : call'[c] = Helper!NoCall /\ call'[c].op = "None"
  BY <1>0 DEF Helper!NoCall
<1>2. HelperType' /\ LeasesGranted'
  BY <1>0 DEF HelperType, LeasesGranted, CallTypes
<1>3. ChecksCovered'
  BY <1>1 DEF ChecksCovered, Reading
<1>4. DeletionsApart'
  BY <1>0, <1>1 DEF DeletionsApart, Helper!At, Helper!ProtectedStays
<1> QED
  BY <1>2, <1>3, <1>4

LEMMA HelperKeeps == HelperInv /\ Helper!Next => HelperInv'
BY RequestsPreserve, AuthorizationPreserves, BeginPreserves, EndPreserves, ValidationPreserves,
   ReadersPreserve, DeletionPreserves, DeletionEndPreserves, PinningPreserves, ClockPreserves,
   RestartPreserves
   DEF Helper!Next

LEMMA HelperIsSafeThen == HelperInv => Helper!BrowsingIsSafe
<1> SUFFICES ASSUME HelperInv PROVE Helper!BrowsingIsSafe
  OBVIOUS
<1> USE DEF HelperInv
<1>1. ASSUME NEW c \in Windows, Helper!At(c, "list_files", "Read")
      PROVE  /\ system[call[c].id] # "Gone" /\ ~Helper!DeletionRuns(call[c].id)
             /\ \E g \in grants : /\ g.pid = c /\ g.id = call[c].id
                                  /\ call[c].checked \in g.at .. g.ended
                                  /\ call[c].checked < g.at + LeaseTime
  <2>1. call[c] \in Reading
    BY <1>1, CallKinds DEF Helper!At
  <2> QED
    BY <1>1, <2>1 DEF ChecksCovered, CheckCovered, DeletionsApart
<1> QED
  BY <1>1 DEF DeletionsApart, Helper!BrowsingIsSafe, Helper!ReadsAreLeased

(*****************************************************************************)
(* The limits on snapshots begun without a password (SnapshotRequests).      *)
(*****************************************************************************)
RequestsType ==
  /\ instant \in Nat
  /\ attempts \in Seq(Nat) /\ lastOperation \in Int
  /\ spent \in Seq(Nat) /\ begun \in Seq(Nat)

\* What the rate limiter remembers is the last snapshot begun.
RateKept ==
  /\ begun = <<>> => lastOperation = Requests!Never
  /\ begun # <<>> => lastOperation = begun[Len(begun)]
  /\ \A i \in DOMAIN begun : begun[i] <= lastOperation
  /\ \A i, j \in DOMAIN begun : i < j => begun[j] - begun[i] >= RateWindow

Forgotten == Len(spent) - Len(attempts)

\* What the quota remembers is the end of what was spent, and what it forgot has
\* expired; so allowances that follow each other are a window apart.
QuotaKept ==
  /\ Forgotten \in Nat
  /\ \A i \in 1 .. Len(attempts) : attempts[i] = spent[Forgotten + i]
  /\ \A i \in 1 .. Forgotten : Requests!Expired(spent[i])
  /\ \A i, j \in 1 .. Len(spent) : i <= j => spent[i] <= spent[j]
  /\ \A i \in 1 .. Len(spent) : spent[i] <= instant
  /\ \A i, j \in 1 .. Len(spent) : j - i >= Allowance => spent[j] - spent[i] >= QuotaWindow

LimitsInv == RequestsType /\ RateKept /\ QuotaKept

LEMMA RequestConstantsHold ==
  QuotaWindow \in Nat \ {0} /\ Allowance \in Nat \ {0} /\ RateWindow \in Nat \ {0}
BY ProgramsConstants DEF Requests!RequestConstants

LEMMA LeastExists ==
  ASSUME NEW S \in SUBSET Nat, S # {}
  PROVE  \E m \in S : \A n \in S : m <= n
<1>1. PICK m \in S : \A n \in S : ~(<<n, m>> \in OpToRel(<, Nat))
  BY NatLessThanWellFounded, WFMin
<1>2. ASSUME NEW n \in S PROVE m <= n
  <2>1. ~(n < m)
    BY <1>1 DEF OpToRel
  <2> QED
    BY <2>1
<1> QED
  BY <1>2

LEMMA RequestsStart == Requests!Init => LimitsInv
BY RequestConstantsHold
   DEF Requests!Init, Requests!Never, LimitsInv, RequestsType, RateKept, QuotaKept, Forgotten

LEMMA RatePreserves ==
  ASSUME LimitsInv, UNCHANGED <<instant, attempts, spent>>,
         instant - lastOperation >= RateWindow,
         lastOperation' = instant, begun' = Append(begun, instant)
  PROVE  LimitsInv'
<1> USE DEF LimitsInv
<1>0. instant \in Nat /\ begun \in Seq(Nat) /\ lastOperation \in Int /\ RateWindow \in Nat \ {0}
  BY RequestConstantsHold DEF RequestsType
<1>1. /\ begun' \in Seq(Nat) /\ begun' # <<>> /\ Len(begun') = Len(begun) + 1
      /\ begun'[Len(begun')] = instant /\ DOMAIN begun' = 1 .. Len(begun) + 1
      /\ DOMAIN begun = 1 .. Len(begun)
      /\ \A i \in 1 .. Len(begun) : begun'[i] = begun[i] /\ begun[i] \in Nat
  BY <1>0
<1>2. \A i \in DOMAIN begun' : begun'[i] <= instant
  BY <1>0, <1>1 DEF RateKept
<1>3. \A i, j \in DOMAIN begun' : i < j => begun'[j] - begun'[i] >= RateWindow
  <2>1. ASSUME NEW i \in 1 .. Len(begun) + 1, NEW j \in 1 .. Len(begun) + 1, i < j
        PROVE  begun'[j] - begun'[i] >= RateWindow
    <3>1. i \in 1 .. Len(begun) /\ begun'[i] = begun[i] /\ begun[i] <= lastOperation
      BY <1>0, <1>1, <2>1, SMTT(30) DEF RateKept
    <3>2. CASE j = Len(begun) + 1
      BY <1>0, <1>1, <3>1, <3>2
    <3>3. CASE j \in 1 .. Len(begun)
      BY <1>0, <1>1, <2>1, <3>1, <3>3 DEF RateKept
    <3>4. Len(begun) \in Nat
      BY <1>0
    <3> QED
      BY <2>1, <3>2, <3>3, <3>4
  <2> QED
    BY <1>1, <2>1
<1>4. RateKept'
  BY <1>0, <1>1, <1>2, <1>3 DEF RateKept
<1>5. RequestsType' /\ QuotaKept'
  BY <1>0, <1>1 DEF RequestsType, QuotaKept, Forgotten, Requests!Expired
<1> QED
  BY <1>4, <1>5

LEMMA Beyond ==
  ASSUME NEW f \in Nat, NEW n \in Nat, NEW k \in 1 .. n + 1, NEW i \in 1 .. f + (k - 1), i > f
  PROVE  i - f \in 1 .. k - 1 /\ i - f \in 1 .. n /\ f + (i - f) = i
OBVIOUS

\* Popping the expired attempts leaves the end of them.
LEMMA LiveAttemptsAre ==
  ASSUME LimitsInv
  PROVE  LET live == Requests!LiveAttempts IN
         /\ live \in Seq(Nat) /\ Len(live) <= Len(attempts)
         /\ \A i \in 1 .. Len(live) : live[i] = spent[(Len(spent) - Len(live)) + i]
         /\ \A i \in 1 .. (Len(spent) - Len(live)) : Requests!Expired(spent[i])
<1> USE DEF LimitsInv
<1> DEFINE n == Len(attempts)
           First(i) == /\ \A j \in 1 .. i - 1 : Requests!Expired(attempts[j])
                       /\ i \in DOMAIN attempts => ~Requests!Expired(attempts[i])
           S == {i \in 1 .. n + 1 : i \in 1 .. n => ~Requests!Expired(attempts[i])}
<1>0. /\ n \in Nat /\ attempts \in Seq(Nat) /\ DOMAIN attempts = 1 .. n /\ spent \in Seq(Nat)
      /\ Forgotten \in Nat /\ Forgotten = Len(spent) - n /\ Len(spent) \in Nat
  BY DEF RequestsType, QuotaKept, Forgotten
<1>1. PICK m \in S : \A i \in S : m <= i
  <2>1. n + 1 \in S /\ S \subseteq Nat
    BY <1>0
  <2> QED
    BY <2>1, LeastExists
<1>2. m \in 1 .. n + 1 /\ First(m)
  <2>1. ASSUME NEW j \in 1 .. m - 1 PROVE Requests!Expired(attempts[j])
    <3>1. j \in 1 .. n /\ j \notin S
      BY <1>0, <1>1
    <3> QED
      BY <1>0, <3>1
  <2> QED
    BY <1>0, <1>1, <2>1
<1>3. PICK first \in 1 .. n + 1 :
        First(first) /\ Requests!LiveAttempts = SubSeq(attempts, first, n)
  <2> DEFINE first == CHOOSE i \in 1 .. n + 1 : First(i)
  <2>1. first \in 1 .. n + 1 /\ First(first)
    BY <1>2
  <2>2. Requests!LiveAttempts = SubSeq(attempts, first, n)
    BY DEF Requests!LiveAttempts
  <2> QED
    BY <2>1, <2>2
<1> DEFINE live == SubSeq(attempts, first, n)
<1>4. /\ live \in Seq(Nat) /\ Len(live) = (n - first) + 1
      /\ \A i \in 1 .. Len(live) : live[i] = attempts[(first + i) - 1]
  BY <1>0, SMTT(30)
<1>5. \A i \in 1 .. Len(live) : live[i] = spent[(Len(spent) - Len(live)) + i]
  <2>1. ASSUME NEW i \in 1 .. Len(live) PROVE live[i] = spent[(Len(spent) - Len(live)) + i]
    <3>1. (first + i) - 1 \in 1 .. n
      BY <1>0, <1>3, <1>4
    <3>2. attempts[(first + i) - 1] = spent[Forgotten + ((first + i) - 1)]
      BY <3>1 DEF QuotaKept
    <3>3. Forgotten + ((first + i) - 1) = (Len(spent) - Len(live)) + i
      BY <1>0, <1>4
    <3> QED
      BY <1>4, <3>2, <3>3
  <2> QED
    BY <2>1
<1>6. \A k \in 1 .. n : spent[Forgotten + k] = attempts[k]
  BY <1>0 DEF QuotaKept
<1>7. \A i \in 1 .. (Len(spent) - Len(live)) : Requests!Expired(spent[i])
  <2>1. ASSUME NEW i \in 1 .. (Len(spent) - Len(live)) PROVE Requests!Expired(spent[i])
    <3>1. CASE i <= Forgotten
      BY <1>0, <1>4, <3>1 DEF QuotaKept
    <3>2. CASE i > Forgotten
      <4> HIDE DEF live, n, First, S
      <4>0. Len(spent) - Len(live) = Forgotten + (first - 1)
        <5>1. Forgotten = Len(spent) - n /\ Len(live) = (n - first) + 1
          BY <1>0, <1>4
        <5>2. Len(spent) \in Nat /\ n \in Nat /\ first \in 1 .. n + 1
          BY <1>0
        <5> QED
          BY <5>1, <5>2
      <4>1. /\ i - Forgotten \in 1 .. first - 1 /\ i - Forgotten \in 1 .. n
            /\ Forgotten + (i - Forgotten) = i
        <5>1. Forgotten \in Nat /\ n \in Nat /\ first \in 1 .. n + 1
          BY <1>0
        <5> QED
          BY <3>2, <4>0, <5>1, Beyond
      <4>2. spent[Forgotten + (i - Forgotten)] = attempts[i - Forgotten]
        BY <1>6, <4>1, Zenon
      <4>3. Requests!Expired(attempts[i - Forgotten])
        BY <1>3, <4>1, Zenon DEF First
      <4>4. Forgotten + (i - Forgotten) = i
        BY <4>1
      <4> HIDE DEF Forgotten
      <4>5. spent[i] = attempts[i - Forgotten]
        BY <4>2, <4>4, Zenon
      <4> QED
        BY <4>3, <4>5
    <3> QED
      BY <1>0, <1>4, <3>1, <3>2
  <2> QED
    BY <2>1
<1>8. Requests!LiveAttempts = live /\ Len(live) <= n
  BY <1>0, <1>3, <1>4
<1> HIDE DEF live
<1> QED
  BY <1>4, <1>5, <1>7, <1>8

\* Forgetting expired attempts keeps the invariant, whether one more is spent or not.
LEMMA QuotaPreserves ==
  ASSUME LimitsInv, UNCHANGED <<instant, lastOperation, begun>>,
         \/ attempts' = Requests!LiveAttempts /\ UNCHANGED spent
         \/ /\ Len(Requests!LiveAttempts) < Allowance
            /\ attempts' = Append(Requests!LiveAttempts, instant)
            /\ spent' = Append(spent, instant)
  PROVE  LimitsInv'
<1> USE DEF LimitsInv
<1>0. /\ instant \in Nat /\ spent \in Seq(Nat) /\ Len(spent) \in Nat
      /\ Allowance \in Nat \ {0} /\ QuotaWindow \in Nat \ {0} /\ Len(attempts) <= Len(spent)
      /\ \A i \in 1 .. Len(spent) : spent[i] \in Nat /\ spent[i] <= instant
  BY RequestConstantsHold DEF RequestsType, QuotaKept, Forgotten
<1>1. RateKept'
  BY DEF RateKept, Requests!Never
<1>2. PICK live \in Seq(Nat) :
        /\ live = Requests!LiveAttempts /\ Len(live) <= Len(attempts)
        /\ \A i \in 1 .. Len(live) : live[i] = spent[(Len(spent) - Len(live)) + i]
        /\ \A i \in 1 .. (Len(spent) - Len(live)) : instant - spent[i] >= QuotaWindow
  BY LiveAttemptsAre DEF Requests!Expired
<1>3. Len(live) \in Nat /\ Len(spent) - Len(live) \in Nat
  BY <1>0, <1>2 DEF RequestsType
<1>4. CASE attempts' = live /\ UNCHANGED spent
  <2>1. RequestsType'
    BY <1>4 DEF RequestsType
  <2>2. QuotaKept'
    BY <1>2, <1>3, <1>4 DEF QuotaKept, Forgotten, Requests!Expired
  <2> QED
    BY <1>1, <2>1, <2>2
<1>5. CASE Len(live) < Allowance /\ attempts' = Append(live, instant) /\ spent' = Append(spent, instant)
  <2> DEFINE n == Len(spent)
  <2>1. /\ spent' \in Seq(Nat) /\ Len(spent') = n + 1 /\ spent'[n + 1] = instant
        /\ \A i \in 1 .. n : spent'[i] = spent[i]
        /\ attempts' \in Seq(Nat) /\ Len(attempts') = Len(live) + 1
        /\ attempts'[Len(live) + 1] = instant
        /\ \A i \in 1 .. Len(live) : attempts'[i] = live[i]
    BY <1>0, <1>5
  <2>2. RequestsType'
    BY <2>1 DEF RequestsType
  <2>3. Forgotten' = n - Len(live)
    BY <1>0, <1>3, <2>1 DEF Forgotten
  <2>4. ASSUME NEW i \in 1 .. Len(live) + 1 PROVE attempts'[i] = spent'[Forgotten' + i]
    <3>1. CASE i = Len(live) + 1
      <4>1. Forgotten' + i = n + 1
        BY <1>0, <1>3, <2>3, <3>1
      <4> QED
        BY <2>1, <3>1, <4>1
    <3>2. CASE i \in 1 .. Len(live)
      <4>1. Forgotten' + i \in 1 .. n
        BY <1>0, <1>3, <2>3, <3>2
      <4> QED
        BY <1>2, <2>1, <2>3, <3>2, <4>1
    <3> QED
      BY <1>3, <3>1, <3>2
  <2>5. ASSUME NEW i \in 1 .. n - Len(live) PROVE instant - spent'[i] >= QuotaWindow
    <3>1. i \in 1 .. n
      BY <1>0, <1>3
    <3> QED
      BY <1>2, <2>1, <3>1
  <2>6. ASSUME NEW i \in 1 .. n + 1, NEW j \in 1 .. n + 1, i <= j
        PROVE  /\ spent'[i] <= spent'[j]
               /\ j - i >= Allowance => spent'[j] - spent'[i] >= QuotaWindow
    <3>1. CASE j = n + 1
      <4>1. CASE i = n + 1
        BY <1>0, <2>1, <3>1, <4>1
      <4>2. CASE i \in 1 .. n
        <5>1. spent'[i] = spent[i] /\ spent'[j] = instant
          BY <2>1, <3>1, <4>2
        <5>2. j - i >= Allowance => i \in 1 .. n - Len(live)
          BY <1>0, <1>3, <1>5, <3>1, <4>2
        <5> QED
          BY <1>0, <1>2, <4>2, <5>1, <5>2
      <4> QED
        BY <1>0, <4>1, <4>2
    <3>2. CASE j \in 1 .. n
      <4>1. i \in 1 .. n
        BY <1>0, <2>6, <3>2
      <4> QED
        BY <2>1, <2>6, <3>2, <4>1 DEF QuotaKept
    <3> QED
      BY <1>0, <3>1, <3>2
  <2>7. ASSUME NEW i \in 1 .. n + 1, NEW j \in 1 .. n + 1, j - i >= Allowance PROVE i <= j
    BY <1>0, <2>7
  <2>8. ASSUME NEW i \in 1 .. n + 1 PROVE spent'[i] <= instant
    <3>1. i = n + 1 \/ i \in 1 .. n
      BY <1>0
    <3> QED
      BY <1>0, <2>1, <3>1, SMTT(30)
  <2>9. QuotaKept'
    BY <1>3, <2>1, <2>3, <2>4, <2>5, <2>6, <2>7, <2>8 DEF QuotaKept, Requests!Expired
  <2> QED
    BY <1>1, <2>2, <2>9
<1> QED
  BY <1>2, <1>4, <1>5

LEMMA LimitsKeep == LimitsInv /\ Requests!Next => LimitsInv'
<1> SUFFICES ASSUME LimitsInv, Requests!Next PROVE LimitsInv'
  OBVIOUS
<1> USE DEF LimitsInv
<1>1. ASSUME NEW c \in Callers, Requests!CheckRateLimit(c) PROVE LimitsInv'
  <2>1. CASE UNCHANGED <<lastOperation, begun>>
    BY <1>1, <2>1
       DEF Requests!CheckRateLimit, RequestsType, RateKept, QuotaKept, Forgotten,
           Requests!Expired, Requests!Never
  <2>2. CASE ~(instant - lastOperation < RateWindow)
    <3>1. instant - lastOperation >= RateWindow
      BY <2>2, RequestConstantsHold DEF RequestsType
    <3> QED
      BY <1>1, <2>2, <3>1, RatePreserves DEF Requests!CheckRateLimit
  <2> QED
    BY <1>1, <2>1, <2>2 DEF Requests!CheckRateLimit
<1>2. ASSUME NEW c \in Callers, Requests!ReserveQuota(c) PROVE LimitsInv'
  <2>1. Len(Requests!LiveAttempts) \in Nat /\ Allowance \in Nat
    BY LiveAttemptsAre, RequestConstantsHold
  <2> QED
    BY <1>2, <2>1, QuotaPreserves DEF Requests!ReserveQuota
<1>3. CASE Requests!ClockTicks
  <2>1. /\ UNCHANGED <<attempts, lastOperation, spent, begun>> /\ instant' = instant + 1
        /\ instant \in Nat /\ spent \in Seq(Nat)
    BY <1>3 DEF Requests!ClockTicks, RequestsType
  <2>2. RequestsType' /\ RateKept'
    BY <2>1 DEF RequestsType, RateKept, Requests!Never
  <2>3. QuotaKept'
    BY <2>1, RequestConstantsHold, SMTT(30) DEF QuotaKept, Forgotten, Requests!Expired
  <2> QED
    BY <2>2, <2>3
<1>4. CASE Requests!HelperRestarts
  <2>1. /\ attempts' = <<>> /\ spent' = <<>> /\ begun' = <<>> /\ instant' = instant
        /\ lastOperation' = Requests!Never
    BY <1>4 DEF Requests!HelperRestarts
  <2> QED
    BY <2>1, RequestConstantsHold
       DEF RequestsType, RateKept, QuotaKept, Forgotten, Requests!Never
<1>5. ASSUME UNCHANGED <<instant, attempts, lastOperation, spent, begun>> PROVE LimitsInv'
  BY <1>5 DEF RequestsType, RateKept, QuotaKept, Forgotten, Requests!Expired, Requests!Never
<1> QED
  BY <1>1, <1>2, <1>3, <1>4, <1>5
     DEF Requests!Next, Requests!Ask, Requests!Authorize, Requests!Deny,
         Requests!CreateDeployment, Requests!CreatePersonalSnapshot

LEMMA LimitsThen == LimitsInv => Requests!LimitsHold
<1> SUFFICES ASSUME LimitsInv PROVE Requests!LimitsHold
  OBVIOUS
<1> USE DEF LimitsInv
<1>0. /\ instant \in Nat /\ spent \in Seq(Nat) /\ DOMAIN spent = 1 .. Len(spent)
      /\ Allowance \in Nat \ {0} /\ QuotaWindow \in Nat \ {0} /\ Len(spent) \in Nat
      /\ \A i \in 1 .. Len(spent) : spent[i] \in Nat
  BY RequestConstantsHold DEF RequestsType
<1>1. ASSUME NEW t \in 0 .. instant
      PROVE  Cardinality({i \in DOMAIN spent : spent[i] <= t /\ t - spent[i] < QuotaWindow})
               <= Allowance
  <2> DEFINE S == {i \in DOMAIN spent : spent[i] <= t /\ t - spent[i] < QuotaWindow}
  <2>1. ASSUME S = {} PROVE Cardinality(S) <= Allowance
    <3>1. Cardinality(S) = 0
      BY <2>1, FS_EmptySet
    <3> HIDE DEF S
    <3> QED
      BY <1>0, <3>1
  <2>2. ASSUME S # {} PROVE Cardinality(S) <= Allowance
    <3>1. PICK m \in S : \A n \in S : m <= n
      <4>1. S \subseteq Nat
        BY <1>0
      <4> QED
        BY <2>2, <4>1, LeastExists
    <3>2. ASSUME NEW n \in S PROVE n \in m .. (m + Allowance) - 1
      <4>1. m \in 1 .. Len(spent) /\ n \in 1 .. Len(spent) /\ m <= n
        BY <1>0, <3>1
      <4>2. spent[n] - spent[m] < QuotaWindow
        BY <1>0, <1>1, <4>1, SMTT(30)
      <4>3. ASSUME n - m >= Allowance PROVE FALSE
        <5>1. spent[n] - spent[m] >= QuotaWindow
          BY <4>1, <4>3 DEF QuotaKept
        <5> QED
          BY <1>0, <4>1, <4>2, <5>1, SMTT(30)
      <4> QED
        BY <1>0, <4>1, <4>3
    <3>3. /\ IsFiniteSet(m .. (m + Allowance) - 1)
          /\ Cardinality(m .. (m + Allowance) - 1) = Allowance
      <4>1. m \in Nat
        BY <1>0
      <4>2. /\ m \in Int /\ (m + Allowance) - 1 \in Int /\ ~(m > (m + Allowance) - 1)
            /\ (((m + Allowance) - 1) - m) + 1 = Allowance
        BY <1>0, <4>1
      <4> QED
        BY <4>2, FS_Interval
    <3>4. S \in SUBSET (m .. (m + Allowance) - 1)
      BY <3>2
    <3> HIDE DEF S
    <3>5. Cardinality(S) <= Cardinality(m .. (m + Allowance) - 1)
      BY <3>3, <3>4, FS_Subset
    <3> QED
      BY <3>3, <3>5
  <2> QED
    BY <2>1, <2>2
<1>2. \A i, j \in DOMAIN begun : i < j => begun[j] - begun[i] >= RateWindow
  BY DEF RateKept
<1>3. \A t \in 0 .. instant :
        Cardinality({i \in DOMAIN spent : spent[i] <= t /\ t - spent[i] < QuotaWindow})
          <= Allowance
  BY <1>1, Zenon
<1> QED
  BY <1>2, <1>3, Zenon DEF Requests!LimitsHold, Requests!Cardinality, Cardinality

(*****************************************************************************)
(* Automatic snapshots (Automation).  The limit on root's calls plays no     *)
(* part: only the policy and what is due decide.                             *)
(*****************************************************************************)
Turns == {Scheduler!NoTurn}
   \cup [stage : {"Begin", "Create"}, scope : Scheduler!Scopes]
   \cup [stage : {"Sleep", "Create"}, scope : Scheduler!Scopes, wakes : Nat]

AutomationType ==
  /\ time \in 0 .. LastHour /\ policy \in Scheduler!Policies
  /\ turn \in [Scheduler!Actors -> Turns]
  /\ snapped \subseteq [scope : Scheduler!Scopes, at : Nat]
  /\ offSince \in [Scheduler!Scopes -> Nat]

\* Nothing is in the future, and the history knows which scopes are off.
PastIsPast ==
  /\ \A t \in snapped : t.at <= time
  /\ \A s \in Scheduler!Scopes :
       IF s \in policy.on THEN offSince[s] = LastHour + 1 ELSE offSince[s] <= time

\* A call sleeps for its notice and no longer, and one that is about to take the
\* snapshot found its scope on, its notice and no time ago.
TurnFits(c) ==
  LET t == turn[c]
      overdue(hour) == offSince[t.scope] <= LastHour /\ hour > offSince[t.scope] + Notice
  IN /\ t.stage = "Sleep" => t.wakes \in time .. time + Notice /\ ~overdue(t.wakes)
     /\ t.stage = "Create" => ~overdue(time)

AutomationInv ==
  /\ AutomationType /\ PastIsPast
  /\ \A c \in Scheduler!Actors : TurnFits(c)
  /\ Scheduler!TurnedOffStops /\ Scheduler!IntervalKept

LEMMA TimeConstants ==
  {Notice, Interval, LastHour} \subseteq Nat /\ Interval > 0
BY ProgramsConstants DEF Scheduler!AutomationConstants

LEMMA AutomationStarts == Scheduler!Init => AutomationInv
<1> SUFFICES ASSUME Scheduler!Init PROVE AutomationInv
  OBVIOUS
<1>1. AutomationType
  BY TimeConstants DEF Scheduler!Init, AutomationType, Turns, Scheduler!NoTurn
<1>2. \A c \in Scheduler!Actors : TurnFits(c)
  BY DEF Scheduler!Init, TurnFits, Scheduler!NoTurn
<1>3. PastIsPast /\ Scheduler!TurnedOffStops /\ Scheduler!IntervalKept
  BY DEF Scheduler!Init, PastIsPast, Scheduler!TurnedOffStops, Scheduler!IntervalKept
<1> QED
  BY <1>1, <1>2, <1>3 DEF AutomationInv

LEMMA PolicyPreserves ==
  ASSUME AutomationInv, NEW p \in Scheduler!Policies, Scheduler!SavePolicy(p)
  PROVE  AutomationInv'
<1> USE TimeConstants DEF AutomationInv
<1> /\ policy' = p /\ turn' = turn /\ time' = time /\ snapped' = snapped
    /\ offSince' = [s \in Scheduler!Scopes |->
                      IF s \in p.on THEN LastHour + 1 ELSE IF s \in policy.on THEN time ELSE offSince[s]]
  BY DEF Scheduler!SavePolicy
<1> time \in Nat /\ time <= LastHour /\ snapped \subseteq [scope : Scheduler!Scopes, at : Nat]
  BY DEF AutomationType
<1>1. AutomationType'
  BY DEF AutomationType
<1>2. \A s \in Scheduler!Scopes : offSince'[s] <= LastHour => offSince'[s] \in {time, offSince[s]}
  BY DEF PastIsPast
<1>3. PastIsPast'
  BY DEF PastIsPast
<1>4. ASSUME NEW c \in Scheduler!Actors PROVE TurnFits(c)'
  <2>1. turn[c] \in Turns /\ TurnFits(c)
    BY DEF AutomationType
  <2> QED
    BY <2>1, <1>2 DEF TurnFits, Turns, Scheduler!NoTurn, AutomationType
<1>5. Scheduler!TurnedOffStops'
  BY <1>2 DEF Scheduler!TurnedOffStops, PastIsPast, AutomationType
<1>6. Scheduler!IntervalKept'
  BY DEF Scheduler!IntervalKept
<1> QED
  BY <1>1, <1>3, <1>4, <1>5, <1>6

\* A call moves on and takes no snapshot.
LEMMA TurnPreserves ==
  ASSUME AutomationInv, NEW c \in Scheduler!Actors, NEW t \in Turns,
         turn' = [turn EXCEPT ![c] = t], TurnFits(c)',
         UNCHANGED <<time, policy, snapped, offSince>>
  PROVE  AutomationInv'
<1>1. AutomationType'
  BY DEF AutomationInv, AutomationType
<1>2. ASSUME NEW d \in Scheduler!Actors PROVE TurnFits(d)'
  <2>1. CASE d # c
    BY <2>1 DEF AutomationInv, AutomationType, TurnFits
  <2> QED
    BY <2>1
<1>3. (PastIsPast /\ Scheduler!TurnedOffStops /\ Scheduler!IntervalKept)'
  BY DEF AutomationInv, PastIsPast, Scheduler!TurnedOffStops, Scheduler!IntervalKept
<1> QED
  BY <1>1, <1>2, <1>3 DEF AutomationInv

LEMMA StartPreserves ==
  ASSUME AutomationInv, NEW s \in Scheduler!Scopes,
         Scheduler!StartScope(s) \/ Scheduler!StartByHand(s)
  PROVE  AutomationInv'
<1>1. /\ UNCHANGED <<time, policy, snapped, offSince>>
      /\ \E c \in Scheduler!Actors : turn' = [turn EXCEPT ![c] = Scheduler!TurnOf(s)]
  BY DEF Scheduler!StartScope, Scheduler!StartByHand, Scheduler!Actors
<1>2. PICK c \in Scheduler!Actors : turn' = [turn EXCEPT ![c] = Scheduler!TurnOf(s)]
  BY <1>1
<1>3. Scheduler!TurnOf(s) \in Turns /\ Scheduler!TurnOf(s).stage = "Begin"
  BY DEF Scheduler!TurnOf, Turns
<1>4. TurnFits(c)'
  BY <1>2, <1>3 DEF TurnFits, AutomationInv, AutomationType
<1> QED
  BY <1>1, <1>2, <1>3, <1>4, TurnPreserves

LEMMA CallPreserves ==
  ASSUME AutomationInv, NEW c \in Scheduler!Actors, Scheduler!Begin(c)
  PROVE  AutomationInv'
<1> USE TimeConstants DEF AutomationInv
<1>1. UNCHANGED <<time, policy, snapped, offSince>>
  BY DEF Scheduler!Begin
<1>2. turn[c] \in [stage : {"Begin"}, scope : Scheduler!Scopes] /\ c \in DOMAIN turn
  BY DEF Scheduler!Begin, AutomationType, Turns, Scheduler!NoTurn
<1>3. CASE Scheduler!Answer(c)
  <2>1. Scheduler!NoTurn \in Turns
    BY DEF Turns
  <2>2. TurnFits(c)'
    BY <1>2, <1>3 DEF TurnFits, Scheduler!Answer, Scheduler!NoTurn
  <2> QED
    BY <1>1, <1>3, <2>1, <2>2, TurnPreserves DEF Scheduler!Answer
<1>4. CASE /\ turn[c].scope \in policy.on
           /\ turn' = [turn EXCEPT ![c] = [stage |-> "Sleep", scope |-> @.scope, wakes |-> time + Notice]]
  <2> DEFINE t == [stage |-> "Sleep", scope |-> turn[c].scope, wakes |-> time + Notice]
  <2>1. t \in Turns /\ turn' = [turn EXCEPT ![c] = t] /\ turn'[c] = t
    BY <1>2, <1>4 DEF Turns, AutomationType
  <2>2. TurnFits(c)'
    BY <1>1, <1>2, <1>4, <2>1 DEF TurnFits, PastIsPast, AutomationType
  <2> QED
    BY <1>1, <2>1, <2>2, TurnPreserves
<1>5. CASE turn[c].scope \in policy.on /\ Scheduler!GoTo(c, "Create")
  <2> DEFINE t == [turn[c] EXCEPT !.stage = "Create"]
  <2>1. t \in Turns /\ turn' = [turn EXCEPT ![c] = t] /\ turn'[c] = t /\ t.scope = turn[c].scope
    BY <1>2, <1>5 DEF Turns, Scheduler!GoTo
  <2>2. t.stage = "Create"
    BY <1>2
  <2>3. TurnFits(c)'
    BY <1>1, <1>2, <1>5, <2>1, <2>2 DEF TurnFits, PastIsPast, AutomationType
  <2> QED
    BY <1>1, <2>1, <2>3, TurnPreserves
<1> QED
  BY <1>3, <1>4, <1>5 DEF Scheduler!Begin

LEMMA WakePreserves ==
  ASSUME AutomationInv, NEW c \in Scheduler!Actors, Scheduler!Wake(c)
  PROVE  AutomationInv'
<1> USE TimeConstants DEF AutomationInv
<1>1. UNCHANGED <<time, policy, snapped, offSince>>
  BY DEF Scheduler!Wake
<1>2. turn[c] \in [stage : {"Sleep"}, scope : Scheduler!Scopes, wakes : Nat] /\ c \in DOMAIN turn
  BY DEF Scheduler!Wake, AutomationType, Turns, Scheduler!NoTurn
<1> DEFINE t == [turn[c] EXCEPT !.stage = "Create"]
<1>3. t \in Turns /\ turn' = [turn EXCEPT ![c] = t] /\ turn'[c] = t /\ t.scope = turn[c].scope
  BY <1>2 DEF Turns, Scheduler!GoTo, Scheduler!Wake
<1>4. t.stage = "Create" /\ time = turn[c].wakes /\ turn[c].stage = "Sleep"
  BY <1>2 DEF Scheduler!Wake
<1>5. TurnFits(c)'
  BY <1>1, <1>3, <1>4 DEF TurnFits
<1> QED
  BY <1>1, <1>3, <1>5, TurnPreserves

LEMMA CreatePreserves ==
  ASSUME AutomationInv, NEW c \in Scheduler!Actors, Scheduler!CreateIfDue(c)
  PROVE  AutomationInv'
<1> USE TimeConstants DEF AutomationInv
<1>1. UNCHANGED <<time, policy, offSince>> /\ Scheduler!Answer(c) /\ c \in DOMAIN turn
  BY DEF Scheduler!CreateIfDue, AutomationType
<1>2. turn[c].scope \in Scheduler!Scopes /\ turn[c].stage = "Create"
  BY DEF Scheduler!CreateIfDue, AutomationType, Turns, Scheduler!NoTurn
<1>3. Scheduler!NoTurn \in Turns /\ TurnFits(c)'
  BY <1>1 DEF TurnFits, Scheduler!Answer, Scheduler!NoTurn, Turns
<1>4. CASE UNCHANGED snapped
  BY <1>1, <1>3, <1>4, TurnPreserves DEF Scheduler!Answer
<1>5. CASE /\ Scheduler!Due(turn[c].scope)
           /\ snapped' = snapped \cup {[scope |-> turn[c].scope, at |-> time]}
  <2> DEFINE new == [scope |-> turn[c].scope, at |-> time]
  <2>1. new \in [scope : Scheduler!Scopes, at : Nat] /\ time \in Nat /\ new.at = time /\ new.scope = turn[c].scope
    BY <1>2 DEF AutomationType
  <2>2. AutomationType'
    BY <1>1, <1>3, <1>5, <2>1 DEF AutomationType, Scheduler!Answer
  <2>3. PastIsPast'
    BY <1>1, <1>5, <2>1 DEF PastIsPast
  <2>4. ASSUME NEW d \in Scheduler!Actors PROVE TurnFits(d)'
    <3>1. CASE d # c
      BY <1>1, <3>1 DEF AutomationType, TurnFits, Scheduler!Answer
    <3> QED
      BY <1>3, <3>1
  <2>5. offSince[turn[c].scope] <= LastHour => time <= offSince[turn[c].scope] + Notice
    BY <1>2, <2>1 DEF TurnFits, AutomationType
  <2>6. Scheduler!TurnedOffStops'
    BY <1>1, <1>5, <2>1, <2>5 DEF Scheduler!TurnedOffStops
  <2>7. ASSUME NEW s \in snapped', NEW t \in snapped', s.scope = t.scope, s.at < t.at
        PROVE  t.at - s.at >= Interval
    <3>1. s \in snapped
      BY <1>5, <2>1, <2>7 DEF PastIsPast, AutomationType
    <3>2. CASE t \in snapped
      BY <2>7, <3>1, <3>2 DEF Scheduler!IntervalKept
    <3>3. CASE t = new
      BY <1>5, <2>1, <2>7, <3>1, <3>3 DEF Scheduler!Due
    <3> QED
      BY <1>5, <3>2, <3>3
  <2>8. Scheduler!IntervalKept'
    BY <2>7, <1>1 DEF Scheduler!IntervalKept
  <2> QED
    BY <2>2, <2>3, <2>4, <2>6, <2>8
<1> QED
  BY <1>4, <1>5 DEF Scheduler!CreateIfDue

LEMMA HourPreserves ==
  ASSUME AutomationInv, Scheduler!ClockTicks
  PROVE  AutomationInv'
<1> USE TimeConstants DEF AutomationInv
<1>1. UNCHANGED <<turn, policy, snapped, offSince>> /\ time' = time + 1 /\ time < LastHour
  BY DEF Scheduler!ClockTicks
<1>2. AutomationType'
  BY <1>1 DEF AutomationType
<1>3. PastIsPast'
  BY <1>1 DEF PastIsPast, AutomationType
<1>4. ASSUME NEW c \in Scheduler!Actors PROVE TurnFits(c)'
  <2>1. turn[c] \in Turns /\ TurnFits(c)
    BY DEF AutomationType
  <2>2. turn[c].stage # "Create" /\ (turn[c].stage = "Sleep" => time < turn[c].wakes)
    BY DEF Scheduler!ClockTicks
  <2>3. turn[c].stage = "Sleep" => turn[c].wakes \in Nat
    BY <2>1 DEF Turns, Scheduler!NoTurn
  <2> QED
    BY <1>1, <2>1, <2>2, <2>3 DEF TurnFits, AutomationType
<1>5. (Scheduler!TurnedOffStops /\ Scheduler!IntervalKept)'
  BY <1>1 DEF Scheduler!TurnedOffStops, Scheduler!IntervalKept
<1> QED
  BY <1>2, <1>3, <1>4, <1>5

LEMMA AutomationRests == AutomationInv /\ UNCHANGED <<time, policy, turn, snapped, offSince>> => AutomationInv'
BY DEF AutomationInv, AutomationType, PastIsPast, TurnFits, Scheduler!TurnedOffStops,
       Scheduler!IntervalKept

LEMMA ForgettingPreserves ==
  ASSUME AutomationInv, Scheduler!HelperRestarts
  PROVE  AutomationInv'
<1>1. UNCHANGED <<time, policy, snapped, offSince>> /\ turn' = [c \in Scheduler!Actors |-> Scheduler!NoTurn]
  BY DEF Scheduler!HelperRestarts
<1>2. AutomationType' /\ \A c \in Scheduler!Actors : TurnFits(c)'
  BY <1>1 DEF AutomationInv, AutomationType, TurnFits, Turns, Scheduler!NoTurn
<1>3. (PastIsPast /\ Scheduler!TurnedOffStops /\ Scheduler!IntervalKept)'
  BY <1>1 DEF AutomationInv, PastIsPast, Scheduler!TurnedOffStops, Scheduler!IntervalKept
<1> QED
  BY <1>2, <1>3 DEF AutomationInv

LEMMA AutomationKeeps == AutomationInv /\ Scheduler!Next => AutomationInv'
<1> SUFFICES ASSUME AutomationInv, Scheduler!Next PROVE AutomationInv'
  OBVIOUS
<1>1. CASE Scheduler!TimerElapses \/ Scheduler!FinishRun
  BY <1>1, AutomationRests DEF Scheduler!TimerElapses, Scheduler!FinishRun
<1> QED
  BY <1>1, PolicyPreserves, StartPreserves, CallPreserves, WakePreserves, CreatePreserves,
     HourPreserves, ForgettingPreserves
     DEF Scheduler!Next

(*****************************************************************************)
(* The files a restore starts with (BootArtifacts).                          *)
(*****************************************************************************)
Digest == [Boot!Each -> Nat]
Step == [at : {"idle", "copy", "hash", "record", "grub", "verify", "select", "unselect", "remove",
               "regenerate"},
         part : 1 .. 3, id : Nat, digest : Digest]
Restore == [id : Nat, phase : {"None"} \cup Boot!Undecided \cup Boot!InFlight, digest : Digest]

ArtifactsType ==
  /\ installed \in Digest /\ artifacts \in Digest
  /\ restore \in Restore
  /\ drawn \in Nat /\ menu \in Nat /\ selector \in Nat
  /\ machine \in [stage : {"userspace", "stage", "engine"}, requested : Nat, carries : Nat,
                  unit : BOOLEAN]
  /\ steps \in [Schedulers -> Step]

\* What is drawn is new: no boot was asked for a restore that a call still arms.
Arming == {"grub", "verify", "select"}
IdsAreDrawn ==
  /\ restore.id <= drawn /\ selector <= drawn /\ machine.requested <= drawn
  /\ \A c \in Schedulers : steps[c].at \in Arming => steps[c].id \in machine.requested + 1 .. drawn

CallsInUserspace == machine.stage = "userspace" \/ \A c \in Schedulers : steps[c] = Boot!Idle

\* The pending restore is one that this boot found, or what became of it.
Inherited ==
  \/ restore.phase \in Boot!InFlight
  \/ restore.phase = "Armed" /\ restore.id = machine.requested

Scheduling == {"copy", "hash", "record"} \cup Arming

\* Nobody provisions while such a restore is pending.
InheritedIsAlone ==
  machine.stage = "userspace" /\ Inherited => \A c \in Schedulers : steps[c].at \notin Scheduling

UnitIsRecorded ==
  /\ machine.stage = "stage" => ~machine.unit
  /\ machine.unit /\ (machine.stage = "engine" \/ Inherited) =>
       artifacts["confirm"] = restore.digest["confirm"]

\* One call at a time: what it has read, recorded and offered is what is there.
CallFits(s) ==
  /\ s.at \in {"copy", "hash", "record"} => restore = Boot!NoRestore
  /\ s.at = "hash" => \A i \in 1 .. s.part - 1 : s.digest[Boot!Parts[i]] = artifacts[Boot!Parts[i]]
  /\ s.at \in {"record"} \cup Arming => s.digest = artifacts
  /\ s.at \in Arming => restore.id = s.id /\ restore.digest = artifacts
  /\ s.at \in {"grub", "verify"} => restore.phase = "Preparing"
  /\ s.at = "select" => restore.phase = "Armed"

OneAtATime ==
  ~overlapped => \A c \in Schedulers : steps[c] # Boot!Idle =>
    CallFits(steps[c]) /\ \A d \in Schedulers \ {c} : steps[d] = Boot!Idle

ArmedFits == ~overlapped /\ restore.phase = "Armed" => artifacts = restore.digest /\ menu = restore.id

ArtifactsInv ==
  /\ ArtifactsType /\ IdsAreDrawn /\ CallsInUserspace /\ InheritedIsAlone /\ UnitIsRecorded
  /\ OneAtATime /\ ArmedFits

LEMMA PartsAre ==
  /\ Boot!Each = {"kernel", "initramfs", "confirm"} /\ Len(Boot!Parts) = 3
  /\ \A i \in 1 .. 3 : Boot!Parts[i] \in Boot!Each
  /\ \A p \in Boot!Each : \E i \in 1 .. 3 : Boot!Parts[i] = p
BY DEF Boot!Each, Boot!Parts

LEMMA ConstantsOfBoot ==
  /\ Boot!None \in Digest /\ Boot!NoRestore \in Restore /\ Boot!NoRestore.id = 0
  /\ Boot!NoRestore.phase = "None" /\ Boot!Idle \in Step /\ Boot!Idle.at = "idle"
  /\ MostBuilds \in Nat
<1>1. Boot!None \in Digest
  BY DEF Boot!None, Digest
<1> QED
  BY <1>1, ProgramsConstants
     DEF Boot!NoRestore, Restore, Boot!Idle, Step, Boot!ArtifactConstants

LEMMA ArtifactsStart == Boot!Init => ArtifactsInv
<1> SUFFICES ASSUME Boot!Init PROVE ArtifactsInv
  OBVIOUS
<1> USE ConstantsOfBoot, PartsAre DEF Boot!Init
<1>1. installed \in Digest /\ artifacts \in Digest
  BY DEF Digest
<1>2. ArtifactsType
  BY <1>1 DEF ArtifactsType
<1>3. IdsAreDrawn /\ CallsInUserspace /\ InheritedIsAlone /\ UnitIsRecorded
  BY DEF IdsAreDrawn, CallsInUserspace, InheritedIsAlone, UnitIsRecorded, Inherited, Arming,
         Scheduling, Boot!InFlight
<1>4. OneAtATime /\ ArmedFits
  BY DEF OneAtATime, ArmedFits
<1> QED
  BY <1>2, <1>3, <1>4 DEF ArtifactsInv

(*****************************************************************************)
(* A step of one call.                                                       *)
(*****************************************************************************)
LEMMA CallStepKeeps ==
  ASSUME ArtifactsInv, NEW c \in Schedulers, NEW s \in Step,
         machine.stage = "userspace", UNCHANGED <<installed, machine>>,
         steps' = [steps EXCEPT ![c] = s],
         artifacts' \in Digest, restore' \in Restore, drawn' \in Nat, drawn <= drawn',
         menu' \in Nat, selector' \in 0 .. drawn', restore'.id <= drawn',
         s.at \in Arming => s.id \in machine.requested + 1 .. drawn',
         Inherited' => /\ Inherited /\ s.at \notin Scheduling
                       /\ artifacts'["confirm"] = artifacts["confirm"]
                       /\ restore'.digest = restore.digest,
         ~overlapped' => /\ \A d \in Schedulers \ {c} : steps[d] = Boot!Idle
                         /\ s # Boot!Idle => CallFits(s)'
                         /\ restore'.phase = "Armed" =>
                              artifacts' = restore'.digest /\ menu' = restore'.id
  PROVE  ArtifactsInv'
<1> USE DEF ArtifactsInv
<1>1. ArtifactsType'
  BY DEF ArtifactsType
<1>2. steps \in [Schedulers -> Step] /\ steps'[c] = s
  BY DEF ArtifactsType
<1>3. IdsAreDrawn'
  BY <1>2 DEF IdsAreDrawn, ArtifactsType
<1>4. CallsInUserspace'
  BY DEF CallsInUserspace
<1>5. InheritedIsAlone'
  BY <1>2 DEF InheritedIsAlone
<1>6. UnitIsRecorded'
  BY DEF UnitIsRecorded
<1>7. OneAtATime'
  BY <1>2 DEF OneAtATime
<1>8. ArmedFits'
  BY DEF ArmedFits
<1> QED
  BY <1>1, <1>3, <1>4, <1>5, <1>6, <1>7, <1>8

LEMMA CallAt ==
  ASSUME ArtifactsInv, NEW c \in Schedulers, NEW point, point # "idle", Boot!At(c, point)
  PROVE  /\ machine.stage = "userspace" /\ steps[c] \in Step /\ steps \in [Schedulers -> Step]
         /\ steps[c].at = point /\ steps[c] # Boot!Idle
         /\ ~overlapped => CallFits(steps[c]) /\ \A d \in Schedulers \ {c} : steps[d] = Boot!Idle
         /\ point \in Scheduling => ~Inherited
         /\ point \in Arming => steps[c].id \in machine.requested + 1 .. drawn
<1> USE DEF ArtifactsInv
<1>1. machine.stage = "userspace" /\ steps[c].at = point /\ steps \in [Schedulers -> Step]
  BY DEF Boot!At, ArtifactsType
<1>2. steps[c] # Boot!Idle
  BY <1>1, ConstantsOfBoot
<1>3. ~overlapped => CallFits(steps[c]) /\ \A d \in Schedulers \ {c} : steps[d] = Boot!Idle
  BY <1>2 DEF OneAtATime
<1>4. point \in Scheduling => ~Inherited
  BY <1>1 DEF InheritedIsAlone
<1>5. point \in Arming => steps[c].id \in machine.requested + 1 .. drawn
  BY <1>1 DEF IdsAreDrawn
<1> QED
  BY <1>1, <1>2, <1>3, <1>4, <1>5

Points == {"idle", "copy", "hash", "record", "grub", "verify", "select", "unselect", "remove",
           "regenerate"}

LEMMA GoIs ==
  ASSUME NEW c \in Schedulers, NEW point \in Points, steps \in [Schedulers -> Step],
         Boot!Go(c, point)
  PROVE  \E s \in Step : /\ steps' = [steps EXCEPT ![c] = s] /\ s.at = point
                         /\ s.part = steps[c].part /\ s.id = steps[c].id
                         /\ s.digest = steps[c].digest
<1> DEFINE s == [steps[c] EXCEPT !.at = point]
<1>1. steps' = [steps EXCEPT ![c] = s]
  BY DEF Boot!Go
<1>2. /\ s \in Step /\ s.at = point /\ s.part = steps[c].part /\ s.id = steps[c].id
      /\ s.digest = steps[c].digest
  BY DEF Step, Points
<1> HIDE DEF s
<1> QED
  BY <1>1, <1>2

\* A step of a call that no longer provisions or arms: it may take the record away.
LEMMA LateStepKeeps ==
  ASSUME ArtifactsInv, NEW c \in Schedulers, NEW s \in Step, s.at \notin Scheduling,
         machine.stage = "userspace", steps' = [steps EXCEPT ![c] = s],
         UNCHANGED <<installed, artifacts, machine, drawn, overlapped>>,
         restore' \in {restore, Boot!NoRestore}, selector' \in {0, selector, restore.id},
         menu' \in Nat, restore'.phase = "Armed" => menu' \in {menu, restore.id},
         ~overlapped => \A d \in Schedulers \ {c} : steps[d] = Boot!Idle
  PROVE  ArtifactsInv'
<1> USE DEF ArtifactsInv
<1>1. /\ artifacts' \in Digest /\ restore' \in Restore /\ drawn' \in Nat /\ drawn <= drawn'
      /\ selector' \in 0 .. drawn' /\ restore'.id <= drawn'
  BY ConstantsOfBoot DEF ArtifactsType, IdsAreDrawn, Restore
<1>2. s.at \notin Arming
  BY DEF Scheduling
<1>3. Inherited' => Inherited /\ restore' = restore
  BY ConstantsOfBoot DEF Inherited, Boot!InFlight
<1>4. CallFits(s)'
  BY <1>2 DEF CallFits, Scheduling, Arming
<1>5. ~overlapped' /\ restore'.phase = "Armed" => artifacts' = restore'.digest /\ menu' = restore'.id
  BY ConstantsOfBoot DEF ArmedFits
<1> QED
  BY <1>1, <1>2, <1>3, <1>4, <1>5, CallStepKeeps

LEMMA LateGoKeeps ==
  ASSUME ArtifactsInv, NEW c \in Schedulers, NEW point, point # "idle", Boot!At(c, point),
         Boot!End(c) \/ \E next \in {"unselect", "remove", "regenerate"} : Boot!Go(c, next),
         UNCHANGED <<installed, artifacts, machine, drawn, overlapped>>,
         restore' \in {restore, Boot!NoRestore}, selector' \in {0, selector, restore.id},
         menu' \in Nat, restore'.phase = "Armed" => menu' \in {menu, restore.id}
  PROVE  ArtifactsInv'
<1>1. \E s \in Step : s.at \notin Scheduling /\ steps' = [steps EXCEPT ![c] = s]
  <2>1. CASE Boot!End(c)
    BY <2>1, ConstantsOfBoot DEF Boot!End, Scheduling, Arming
  <2>2. ASSUME NEW next \in {"unselect", "remove", "regenerate"}, Boot!Go(c, next)
        PROVE  \E s \in Step : s.at \notin Scheduling /\ steps' = [steps EXCEPT ![c] = s]
    <3>1. next \in Points /\ next \notin Scheduling
      BY DEF Points, Scheduling, Arming
    <3> QED
      BY <2>2, <3>1, CallAt, GoIs
  <2> QED
    BY <2>1, <2>2
<1> QED
  BY <1>1, CallAt, LateStepKeeps

LEMMA OfferedIs ==
  ASSUME ArtifactsInv
  PROVE  Boot!Offered \in Nat /\ (restore.phase = "Armed" => Boot!Offered = restore.id)
BY DEF Boot!Offered, Boot!Undecided, ArtifactsInv, ArtifactsType, Restore

LEMMA LateCallsPreserve ==
  ASSUME ArtifactsInv, NEW c \in Schedulers,
         \/ Boot!GiveUp(c) \/ Boot!ArmOnce(c) \/ Boot!ClearOnce(c) \/ Boot!RemoveRecord(c)
         \/ Boot!RegenerateLast(c)
  PROVE  ArtifactsInv'
<1>0. menu \in Nat
  BY DEF ArtifactsInv, ArtifactsType
<1>1. CASE Boot!GiveUp(c)
  <2>1. PICK point \in {"copy", "hash", "record"} : Boot!At(c, point)
    BY <1>1 DEF Boot!GiveUp
  <2> QED
    BY <1>0, <1>1, <2>1, LateGoKeeps DEF Boot!GiveUp
<1>2. CASE Boot!ArmOnce(c)
  BY <1>0, <1>2, LateGoKeeps DEF Boot!ArmOnce
<1>3. CASE Boot!ClearOnce(c)
  BY <1>0, <1>3, LateGoKeeps DEF Boot!ClearOnce, Boot!OnFailure
<1>4. CASE Boot!RemoveRecord(c)
  BY <1>0, <1>4, LateGoKeeps DEF Boot!RemoveRecord, Boot!OnFailure
<1>5. CASE Boot!RegenerateLast(c)
  BY <1>0, <1>5, LateGoKeeps, OfferedIs DEF Boot!RegenerateLast
<1> QED
  BY <1>1, <1>2, <1>3, <1>4, <1>5

LEMMA BeginsPreserve ==
  ASSUME ArtifactsInv, NEW c \in Schedulers, Boot!Schedule(c) \/ Boot!Cancel(c)
  PROVE  ArtifactsInv'
<1> USE DEF ArtifactsInv
<1>1. PICK point \in {"copy", "unselect"} :
        /\ Boot!Begin(c, point)
        /\ point = "copy" => restore = Boot!NoRestore
        /\ point = "unselect" => restore # Boot!NoRestore
  BY ConstantsOfBoot DEF Boot!Schedule, Boot!Cancel, Boot!Undecided
<1>2. UNCHANGED <<installed, artifacts, restore, drawn, menu, selector, machine>>
  BY DEF Boot!Schedule, Boot!Cancel
<1>3. machine.stage = "userspace" /\ steps \in [Schedulers -> Step] /\ Boot!Go(c, point)
  BY <1>1 DEF Boot!Begin, Boot!At, ArtifactsType
<1>4. PICK s \in Step : steps' = [steps EXCEPT ![c] = s] /\ s.at = point
  BY <1>1, <1>3, GoIs DEF Points
<1>5. /\ artifacts' \in Digest /\ restore' \in Restore /\ drawn' \in Nat /\ drawn <= drawn'
      /\ menu' \in Nat /\ selector' \in 0 .. drawn' /\ restore'.id <= drawn'
  BY <1>2 DEF ArtifactsType, IdsAreDrawn
<1>6. s.at \notin Arming /\ (point = "unselect" => s.at \notin Scheduling)
  BY <1>1, <1>4 DEF Arming, Scheduling
<1>7. Inherited' => Inherited /\ point # "copy"
  BY <1>1, <1>2, ConstantsOfBoot DEF Inherited, Boot!InFlight
<1>8. ~overlapped' => /\ \A d \in Schedulers \ {c} : steps[d] = Boot!Idle
                      /\ point = "unselect" => ~overlapped
  BY <1>1 DEF Boot!Begin
<1>9. CallFits(s)'
  BY <1>1, <1>2, <1>4 DEF CallFits, Arming
<1>10. ~overlapped' /\ restore'.phase = "Armed" => artifacts' = restore'.digest /\ menu' = restore'.id
  BY <1>1, <1>2, <1>8, ConstantsOfBoot DEF ArmedFits
<1> QED
  BY <1>1, <1>2, <1>3, <1>4, <1>5, <1>6, <1>7, <1>8, <1>9, <1>10, CallStepKeeps

NextPart(was, n, digest) == [was EXCEPT !.part = n, !.digest = digest]
NextTask(was, digest, next) == [was EXCEPT !.part = 1, !.digest = digest, !.at = next]

LEMMA StepBecomes ==
  ASSUME NEW was \in Step, NEW n \in 1 .. 3, NEW digest \in Digest, NEW next \in Points
  PROVE  /\ NextPart(was, n, digest) \in Step /\ NextPart(was, n, digest).digest = digest
         /\ NextPart(was, n, digest).at = was.at /\ NextPart(was, n, digest).part = n
         /\ NextTask(was, digest, next) \in Step /\ NextTask(was, digest, next).digest = digest
         /\ NextTask(was, digest, next).at = next /\ NextTask(was, digest, next).part = 1
<1> DEFINE a == [was EXCEPT !.part = n]
           b == [a EXCEPT !.digest = digest]
           d == [was EXCEPT !.part = 1]
           e == [d EXCEPT !.digest = digest]
           f == [e EXCEPT !.at = next]
<1>1. NextPart(was, n, digest) = b /\ NextTask(was, digest, next) = f
  BY DEF NextPart, NextTask
<1>2. a \in Step /\ a.at = was.at /\ a.part = n
  BY DEF Step
<1>3. d \in Step /\ d.part = 1
  BY DEF Step
<1> HIDE DEF a, d
<1>4. b \in Step /\ b.digest = digest /\ b.at = a.at /\ b.part = a.part
  BY <1>2 DEF Step
<1>5. e \in Step /\ e.digest = digest /\ e.part = d.part
  BY <1>3 DEF Step
<1> HIDE DEF b, e
<1>6. f \in Step /\ f.digest = e.digest /\ f.at = next /\ f.part = e.part
  BY <1>5 DEF Step, Points
<1> HIDE DEF f
<1> QED
  BY <1>1, <1>2, <1>3, <1>4, <1>5, <1>6

\* The next of the three files, or the next thing to do with them.
LEMMA AdvanceIs ==
  ASSUME NEW c \in Schedulers, steps \in [Schedulers -> Step], NEW digest \in Digest,
         NEW next \in Points, Boot!Advance(c, digest, next)
  PROVE  \E s \in Step :
           /\ steps' = [steps EXCEPT ![c] = s] /\ s.digest = digest
           /\ \/ s.at = steps[c].at /\ s.part = steps[c].part + 1
              \/ s.at = next /\ s.part = 1 /\ steps[c].part = 3
<1>0. steps[c] \in Step /\ steps[c].part \in 1 .. 3
  BY DEF Step
<1>1. CASE steps[c].part < 3
  <2> DEFINE s == NextPart(steps[c], steps[c].part + 1, digest)
  <2>1. steps' = [steps EXCEPT ![c] = s]
    BY <1>1, PartsAre DEF Boot!Advance, NextPart
  <2>2. steps[c].part + 1 \in 1 .. 3
    BY <1>0, <1>1
  <2>3. s \in Step /\ s.digest = digest /\ s.at = steps[c].at /\ s.part = steps[c].part + 1
    BY <1>0, <2>2, StepBecomes
  <2> HIDE DEF s
  <2> QED
    BY <2>1, <2>3
<1>2. CASE ~(steps[c].part < 3)
  <2> DEFINE s == NextTask(steps[c], digest, next)
  <2>1. steps' = [steps EXCEPT ![c] = s]
    BY <1>2, PartsAre DEF Boot!Advance, NextTask
  <2>2. 1 \in 1 .. 3 /\ steps[c].part = 3
    BY <1>0, <1>2
  <2>3. s \in Step /\ s.digest = digest /\ s.at = next /\ s.part = 1
    BY <1>0, <2>2, StepBecomes
  <2> HIDE DEF s
  <2> QED
    BY <2>1, <2>2, <2>3
<1> QED
  BY <1>1, <1>2

LEMMA CopyPreserves ==
  ASSUME ArtifactsInv, NEW c \in Schedulers, Boot!Copy(c)
  PROVE  ArtifactsInv'
<1> USE DEF ArtifactsInv
<1>1. /\ Boot!At(c, "copy") /\ UNCHANGED <<installed, restore, drawn, menu, selector, machine, overlapped>>
      /\ Boot!Advance(c, Boot!None, "hash") \/ Boot!End(c)
  BY DEF Boot!Copy
<1>2. /\ machine.stage = "userspace" /\ steps[c] \in Step /\ steps \in [Schedulers -> Step]
      /\ steps[c].at = "copy" /\ ~Inherited
      /\ ~overlapped => CallFits(steps[c]) /\ \A d \in Schedulers \ {c} : steps[d] = Boot!Idle
  BY <1>1, CallAt DEF Scheduling
<1>3. artifacts' \in Digest
  BY DEF Boot!Copy, ArtifactsType, Digest
<1>4. PICK s \in Step : /\ steps' = [steps EXCEPT ![c] = s] /\ s.at \in {"idle", "copy", "hash"}
                        /\ s.at = "hash" => s.part = 1
  <2>1. CASE Boot!End(c)
    BY <2>1, ConstantsOfBoot DEF Boot!End
  <2>2. CASE Boot!Advance(c, Boot!None, "hash")
    BY <1>2, <2>2, AdvanceIs, ConstantsOfBoot DEF Points
  <2> QED
    BY <1>1, <2>1, <2>2
<1>5. /\ restore' \in Restore /\ drawn' \in Nat /\ drawn <= drawn'
      /\ menu' \in Nat /\ selector' \in 0 .. drawn' /\ restore'.id <= drawn'
  BY <1>1 DEF ArtifactsType, IdsAreDrawn
<1>6. ~Inherited' /\ s.at \notin Arming
  BY <1>1, <1>2, <1>4 DEF Inherited, Arming
<1>7. ~overlapped' => restore = Boot!NoRestore /\ CallFits(s)'
  BY <1>1, <1>2, <1>4 DEF CallFits, Arming
<1>8. ~overlapped' => restore'.phase # "Armed"
  BY <1>1, <1>7, ConstantsOfBoot
<1> QED
  BY <1>1, <1>2, <1>3, <1>4, <1>5, <1>6, <1>7, <1>8, CallStepKeeps

LEMMA HashPreserves ==
  ASSUME ArtifactsInv, NEW c \in Schedulers, Boot!Hash(c)
  PROVE  ArtifactsInv'
<1> USE DEF ArtifactsInv
<1> DEFINE p == Boot!Parts[steps[c].part]
           new == [steps[c].digest EXCEPT ![p] = artifacts[p]]
<1>1. /\ Boot!At(c, "hash") /\ Boot!Advance(c, new, "record")
      /\ UNCHANGED <<installed, artifacts, restore, drawn, menu, selector, machine, overlapped>>
  BY DEF Boot!Hash
<1>2. /\ machine.stage = "userspace" /\ steps[c] \in Step /\ steps \in [Schedulers -> Step]
      /\ steps[c].at = "hash" /\ ~Inherited
      /\ ~overlapped => CallFits(steps[c]) /\ \A d \in Schedulers \ {c} : steps[d] = Boot!Idle
  BY <1>1, CallAt DEF Scheduling
<1>3. /\ steps[c].part \in 1 .. 3 /\ steps[c].digest \in Digest /\ p \in Boot!Each
      /\ artifacts \in Digest /\ new \in Digest
  BY <1>2, PartsAre DEF Step, Digest, ArtifactsType
<1>4. ~overlapped => \A i \in 1 .. steps[c].part : new[Boot!Parts[i]] = artifacts[Boot!Parts[i]]
  <2>1. ASSUME ~overlapped, NEW i \in 1 .. steps[c].part
        PROVE  new[Boot!Parts[i]] = artifacts[Boot!Parts[i]]
    <3>1. Boot!Parts[i] \in Boot!Each
      BY <1>3, <2>1, PartsAre
    <3>2. CASE i = steps[c].part
      BY <1>3, <3>2 DEF Digest
    <3>3. CASE i \in 1 .. steps[c].part - 1
      BY <1>2, <1>3, <2>1, <3>1, <3>3 DEF Digest, CallFits
    <3> QED
      BY <1>3, <2>1, <3>2, <3>3
  <2> QED
    BY <2>1
<1> HIDE DEF new, p
<1>5. PICK s \in Step : /\ steps' = [steps EXCEPT ![c] = s] /\ s.digest = new
                        /\ \/ s.at = "hash" /\ s.part = steps[c].part + 1
                           \/ s.at = "record" /\ steps[c].part = 3
  BY <1>1, <1>2, <1>3, AdvanceIs DEF Points
<1>6. /\ artifacts' \in Digest /\ restore' \in Restore /\ drawn' \in Nat /\ drawn <= drawn'
      /\ menu' \in Nat /\ selector' \in 0 .. drawn' /\ restore'.id <= drawn'
  BY <1>1 DEF ArtifactsType, IdsAreDrawn
<1>7. ~Inherited' /\ s.at \notin Arming
  BY <1>1, <1>2, <1>5 DEF Inherited, Arming
<1>8. ~overlapped => restore = Boot!NoRestore
  BY <1>2 DEF CallFits
<1>9. ~overlapped => CallFits(s)'
  <2>1. CASE s.at = "hash" /\ s.part = steps[c].part + 1
    BY <1>1, <1>3, <1>4, <1>5, <1>8, <2>1 DEF CallFits, Arming
  <2>2. CASE s.at = "record" /\ steps[c].part = 3
    <3>1. ~overlapped => \A q \in Boot!Each : new[q] = artifacts[q]
      BY <1>4, <2>2, PartsAre
    <3>2. ~overlapped => new = artifacts
      BY <1>3, <3>1 DEF Digest
    <3> QED
      BY <1>1, <1>5, <1>8, <2>2, <3>2 DEF CallFits, Arming
  <2> QED
    BY <1>5, <2>1, <2>2
<1>10. ~overlapped' => restore'.phase # "Armed"
  BY <1>1, <1>8, ConstantsOfBoot
<1> QED
  BY <1>1, <1>2, <1>5, <1>6, <1>7, <1>9, <1>10, CallStepKeeps

LEMMA RecordPreserves ==
  ASSUME ArtifactsInv, NEW c \in Schedulers, Boot!CreateRecord(c)
  PROVE  ArtifactsInv'
<1> USE DEF ArtifactsInv
<1>1. /\ Boot!At(c, "record") /\ UNCHANGED <<installed, artifacts, menu, selector, machine, overlapped>>
  BY DEF Boot!CreateRecord
<1>2. /\ machine.stage = "userspace" /\ steps[c] \in Step /\ steps \in [Schedulers -> Step]
      /\ steps[c].at = "record" /\ ~Inherited
      /\ ~overlapped => CallFits(steps[c]) /\ \A d \in Schedulers \ {c} : steps[d] = Boot!Idle
  BY <1>1, CallAt DEF Scheduling
<1>3. PICK next \in {"grub", "unselect"} :
        /\ steps' = [steps EXCEPT ![c].at = next, ![c].id = drawn + 1]
        /\ \/ /\ restore = Boot!NoRestore /\ drawn' = drawn + 1
              /\ restore' = [id |-> drawn', phase |-> "Preparing", digest |-> steps[c].digest]
           \/ next = "unselect" /\ UNCHANGED <<drawn, restore>>
  BY DEF Boot!CreateRecord
<1>4. /\ drawn \in Nat /\ artifacts \in Digest /\ menu \in Nat /\ selector \in 0 .. drawn
      /\ restore.id <= drawn /\ restore \in Restore /\ machine.requested \in 0 .. drawn
      /\ steps[c].digest \in Digest
  BY <1>2 DEF ArtifactsType, IdsAreDrawn, Step
<1>5. PICK s \in Step : /\ steps' = [steps EXCEPT ![c] = s]
                        /\ s.at = next /\ s.id = drawn + 1 /\ s.digest = steps[c].digest
  <2> DEFINE a == [steps[c] EXCEPT !.at = next]
             b == [a EXCEPT !.id = drawn + 1]
  <2>1. steps' = [steps EXCEPT ![c] = b]
    BY <1>2, <1>3, Zenon
  <2>2. a \in Step /\ a.at = next /\ a.digest = steps[c].digest
    BY <1>2 DEF Step
  <2> HIDE DEF a
  <2>3. b \in Step /\ b.at = a.at /\ b.id = drawn + 1 /\ b.digest = a.digest
    BY <1>4, <2>2 DEF Step
  <2> HIDE DEF b
  <2> QED
    BY <2>1, <2>2, <2>3
<1>6. CASE /\ restore = Boot!NoRestore /\ drawn' = drawn + 1
           /\ restore' = [id |-> drawn', phase |-> "Preparing", digest |-> steps[c].digest]
  <2>1. restore' \in Restore /\ restore'.id = drawn' /\ restore'.phase = "Preparing"
        /\ restore'.digest = steps[c].digest
    BY <1>4, <1>6 DEF Restore, Boot!Undecided
  <2>2. ~Inherited' /\ drawn' = drawn + 1
    BY <1>6, <2>1 DEF Inherited, Boot!InFlight
  <2>3. ~overlapped => steps[c].digest = artifacts
    BY <1>2 DEF CallFits
  <2>4. s.at \in {"grub", "unselect"}
    BY <1>3, <1>5
  <2>5. ~overlapped => CallFits(s)'
    BY <1>1, <1>5, <2>1, <2>2, <2>3, <2>4 DEF CallFits, Arming
  <2>6. s.id \in machine.requested + 1 .. drawn'
    BY <1>5, <1>4, <1>6
  <2>7. /\ artifacts' \in Digest /\ drawn' \in Nat /\ drawn <= drawn' /\ menu' \in Nat
        /\ selector' \in 0 .. drawn' /\ restore'.id <= drawn'
    BY <1>1, <1>4, <1>6, <2>1
  <2> QED
    BY <1>1, <1>2, <1>5, <2>1, <2>2, <2>5, <2>6, <2>7, CallStepKeeps
<1>7. CASE next = "unselect" /\ UNCHANGED <<drawn, restore>>
  <2>1. s.at \notin Scheduling
    BY <1>5, <1>7 DEF Scheduling, Arming
  <2> QED
    BY <1>1, <1>2, <1>5, <1>4, <1>7, <2>1, LateStepKeeps
<1> QED
  BY <1>3, <1>6, <1>7

LEMMA GrubPreserves ==
  ASSUME ArtifactsInv, NEW c \in Schedulers, Boot!RegenerateGrub(c)
  PROVE  ArtifactsInv'
<1> USE DEF ArtifactsInv
<1>1. /\ Boot!At(c, "grub")
      /\ UNCHANGED <<installed, artifacts, restore, drawn, selector, machine, overlapped>>
  BY DEF Boot!RegenerateGrub
<1>2. /\ machine.stage = "userspace" /\ steps[c] \in Step /\ steps \in [Schedulers -> Step]
      /\ steps[c].at = "grub" /\ ~Inherited /\ steps[c].id \in machine.requested + 1 .. drawn
      /\ ~overlapped => CallFits(steps[c]) /\ \A d \in Schedulers \ {c} : steps[d] = Boot!Idle
  BY <1>1, CallAt DEF Scheduling, Arming
<1>3. CASE menu' = Boot!Offered /\ Boot!Go(c, "verify")
  <2>1. PICK s \in Step : /\ steps' = [steps EXCEPT ![c] = s] /\ s.at = "verify"
                          /\ s.id = steps[c].id /\ s.digest = steps[c].digest
    BY <1>2, <1>3, GoIs DEF Points
  <2>2. /\ artifacts' \in Digest /\ restore' \in Restore /\ drawn' \in Nat /\ drawn <= drawn'
        /\ menu' \in Nat /\ selector' \in 0 .. drawn' /\ restore'.id <= drawn'
    BY <1>1, <1>3, OfferedIs DEF ArtifactsType, IdsAreDrawn
  <2>3. ~Inherited'
    BY <1>1, <1>2 DEF Inherited
  <2>4. ~overlapped => CallFits(s)' /\ restore'.phase = "Preparing"
    BY <1>1, <1>2, <2>1 DEF CallFits, Arming
  <2> QED
    BY <1>1, <1>2, <2>1, <2>2, <2>3, <2>4, CallStepKeeps
<1>4. CASE UNCHANGED menu /\ Boot!Go(c, "unselect")
  BY <1>1, <1>4, LateGoKeeps DEF ArtifactsType
<1> QED
  BY <1>3, <1>4 DEF Boot!RegenerateGrub

LEMMA ArmPreserves ==
  ASSUME ArtifactsInv, NEW c \in Schedulers, Boot!ArmRecord(c)
  PROVE  ArtifactsInv'
<1> USE DEF ArtifactsInv
<1>1. /\ Boot!At(c, "verify")
      /\ UNCHANGED <<installed, artifacts, drawn, menu, selector, machine, overlapped>>
  BY DEF Boot!ArmRecord
<1>2. /\ machine.stage = "userspace" /\ steps[c] \in Step /\ steps \in [Schedulers -> Step]
      /\ steps[c].at = "verify" /\ steps[c].id \in machine.requested + 1 .. drawn
      /\ ~overlapped => CallFits(steps[c]) /\ \A d \in Schedulers \ {c} : steps[d] = Boot!Idle
  BY <1>1, CallAt DEF Scheduling, Arming
<1>3. CASE /\ menu = steps[c].id
           /\ restore' = [id |-> steps[c].id, phase |-> "Armed", digest |-> steps[c].digest]
           /\ Boot!Go(c, "select") \/ Boot!Go(c, "unselect")
  <2>1. PICK s \in Step : /\ steps' = [steps EXCEPT ![c] = s] /\ s.at \in {"select", "unselect"}
                          /\ s.id = steps[c].id /\ s.digest = steps[c].digest
    BY <1>2, <1>3, GoIs DEF Points
  <2>2. /\ steps[c].digest \in Digest /\ steps[c].id \in Nat /\ drawn \in Nat
        /\ machine.requested \in Nat
    BY <1>2 DEF Step, ArtifactsType
  <2>3. /\ restore'.id = steps[c].id /\ restore'.phase = "Armed"
        /\ restore'.digest = steps[c].digest /\ restore' \in Restore
    BY <1>3, <2>2 DEF Restore, Boot!Undecided
  <2>4. /\ artifacts' \in Digest /\ drawn' \in Nat /\ drawn <= drawn'
        /\ menu' \in Nat /\ selector' \in 0 .. drawn' /\ restore'.id <= drawn'
    BY <1>1, <1>2, <2>2, <2>3 DEF ArtifactsType, IdsAreDrawn
  <2>5. ~Inherited'
    BY <1>1, <1>2, <2>2, <2>3 DEF Inherited, Boot!InFlight
  <2>6. ~overlapped => steps[c].digest = artifacts
    BY <1>2 DEF CallFits, Arming
  <2>7. ~overlapped => CallFits(s)'
    BY <1>1, <2>1, <2>3, <2>6 DEF CallFits, Arming
  <2> QED
    BY <1>1, <1>2, <1>3, <2>1, <2>3, <2>4, <2>5, <2>6, <2>7, CallStepKeeps
<1>4. CASE UNCHANGED restore /\ Boot!Go(c, "unselect")
  BY <1>1, <1>4, LateGoKeeps DEF ArtifactsType
<1> QED
  BY <1>3, <1>4 DEF Boot!ArmRecord

(*****************************************************************************)
(* Packages, GRUB, the initramfs and the reconciliation.                     *)
(*****************************************************************************)
LEMMA PackagesPreserve ==
  ASSUME ArtifactsInv, Boot!Upgrade \/ Boot!UpdateGrub
  PROVE  ArtifactsInv'
<1> USE DEF ArtifactsInv
<1>1. /\ UNCHANGED <<artifacts, restore, drawn, selector, machine, steps, overlapped>>
      /\ menu' \in {menu, Boot!Offered}
  BY DEF Boot!Upgrade, Boot!UpdateGrub
<1>2. installed' \in Digest
  <2>1. "kernel" \in Boot!Each /\ "confirm" \in Boot!Each /\ installed \in Digest
    BY PartsAre DEF ArtifactsType
  <2> QED
    BY <2>1 DEF Boot!Upgrade, Boot!UpdateGrub, Digest
<1>3. ArtifactsType'
  BY <1>1, <1>2, OfferedIs DEF ArtifactsType
<1>4. (IdsAreDrawn /\ CallsInUserspace /\ InheritedIsAlone /\ UnitIsRecorded)'
  BY <1>1 DEF IdsAreDrawn, CallsInUserspace, InheritedIsAlone, UnitIsRecorded, Inherited
<1>5. OneAtATime'
  BY <1>1 DEF OneAtATime, CallFits
<1>6. ArmedFits'
  BY <1>1, OfferedIs DEF ArmedFits
<1> QED
  BY <1>3, <1>4, <1>5, <1>6

LEMMA BootPreserves ==
  ASSUME ArtifactsInv, Boot!Boot
  PROVE  ArtifactsInv'
<1> USE DEF ArtifactsInv
<1>1. /\ UNCHANGED <<installed, artifacts, restore, drawn, menu, overlapped>>
      /\ selector' \in {0, selector} /\ steps' = [c \in Schedulers |-> Boot!Idle]
      /\ machine'.stage = "stage" /\ machine'.requested = selector' /\ ~machine'.unit
      /\ \E n \in Nat : machine' = [stage |-> "stage", requested |-> selector', unit |-> FALSE,
                                    carries |-> n]
  <2>1. artifacts["initramfs"] \in Nat /\ installed["initramfs"] \in Nat
    BY PartsAre DEF ArtifactsType, Digest
  <2> QED
    BY <2>1 DEF Boot!Boot
<1>2. ArtifactsType'
  BY <1>1, ConstantsOfBoot DEF ArtifactsType
<1>3. (IdsAreDrawn /\ CallsInUserspace /\ InheritedIsAlone /\ UnitIsRecorded)'
  BY <1>1, ConstantsOfBoot
     DEF IdsAreDrawn, CallsInUserspace, InheritedIsAlone, UnitIsRecorded, Arming, ArtifactsType
<1>4. (OneAtATime /\ ArmedFits)'
  BY <1>1 DEF OneAtATime, ArmedFits
<1> QED
  BY <1>2, <1>3, <1>4

\* Before userspace no call runs.
LEMMA EarlyStepKeeps ==
  ASSUME ArtifactsInv, machine.stage # "userspace", UNCHANGED <<drawn, selector, steps>>,
         ArtifactsType', restore'.id <= drawn, machine'.requested <= drawn,
         UnitIsRecorded', ArmedFits'
  PROVE  ArtifactsInv'
<1> USE DEF ArtifactsInv
<1>1. steps' = steps /\ \A c \in Schedulers : steps[c] = Boot!Idle /\ steps[c].at = "idle"
  BY ConstantsOfBoot DEF CallsInUserspace
<1>2. (IdsAreDrawn /\ CallsInUserspace /\ InheritedIsAlone /\ OneAtATime)'
  BY <1>1 DEF IdsAreDrawn, CallsInUserspace, InheritedIsAlone, OneAtATime, Arming, Scheduling
<1> QED
  BY <1>2

LEMMA MachineIs ==
  ASSUME ArtifactsInv, NEW b \in BOOLEAN
  PROVE  /\ LET m == Boot!Userspace(machine, b) IN
            /\ m \in [stage : {"userspace", "stage", "engine"}, requested : Nat, carries : Nat,
                      unit : BOOLEAN]
            /\ m.stage = "userspace" /\ m.unit = b /\ m.requested = machine.requested
<1> USE DEF ArtifactsInv
<1> DEFINE M == [stage : {"userspace", "stage", "engine"}, requested : Nat, carries : Nat,
                 unit : BOOLEAN]
           m1 == [machine EXCEPT !.stage = "userspace"]
           m2 == [m1 EXCEPT !.carries = 0]
           m3 == [m2 EXCEPT !.unit = b]
<1>1. machine \in M
  BY DEF ArtifactsType
<1>2. m1 \in M /\ m1.stage = "userspace" /\ m1.requested = machine.requested
  BY <1>1
<1> HIDE DEF m1
<1>3. m2 \in M /\ m2.stage = "userspace" /\ m2.requested = machine.requested
  BY <1>2
<1> HIDE DEF m2
<1>4. m3 \in M /\ m3.stage = "userspace" /\ m3.requested = machine.requested /\ m3.unit = b
  BY <1>3
<1>5. m3 = Boot!Userspace(machine, b)
  BY DEF Boot!Userspace, m1, m2
<1> QED
  BY <1>4, <1>5, Zenon

LEMMA StagePreserves ==
  ASSUME ArtifactsInv, Boot!Stage
  PROVE  ArtifactsInv'
<1> USE DEF ArtifactsInv
<1>1. /\ machine.stage = "stage" /\ ~machine.unit
      /\ UNCHANGED <<installed, restore, drawn, menu, selector, steps, overlapped>>
  BY DEF Boot!Stage, UnitIsRecorded
<1>2. /\ restore.id <= drawn /\ machine.requested <= drawn /\ artifacts \in Digest
      /\ machine.carries \in Nat /\ restore.digest \in Digest /\ "confirm" \in Boot!Each
  BY PartsAre DEF IdsAreDrawn, ArtifactsType, Restore
<1>3. CASE UNCHANGED artifacts /\ machine' = Boot!Userspace(machine, FALSE)
  <2>1. /\ machine' \in [stage : {"userspace", "stage", "engine"}, requested : Nat, carries : Nat,
                         unit : BOOLEAN]
        /\ machine'.stage = "userspace" /\ machine'.unit = FALSE
        /\ machine'.requested = machine.requested
    BY <1>3, MachineIs
  <2>2. ArtifactsType'
    BY <1>1, <1>3, <2>1 DEF ArtifactsType
  <2>3. UnitIsRecorded' /\ ArmedFits'
    BY <1>1, <1>3, <2>1 DEF UnitIsRecorded, ArmedFits
  <2> QED
    BY <1>1, <1>2, <2>1, <2>2, <2>3, EarlyStepKeeps
<1>4. CASE UNCHANGED artifacts /\ machine' = [machine EXCEPT !.stage = "engine"]
  <2>1. /\ machine' \in [stage : {"userspace", "stage", "engine"}, requested : Nat, carries : Nat,
                         unit : BOOLEAN]
        /\ machine'.stage = "engine" /\ ~machine'.unit
        /\ machine'.requested = machine.requested
    BY <1>1, <1>4 DEF ArtifactsType
  <2>2. ArtifactsType'
    BY <1>1, <1>4, <2>1 DEF ArtifactsType
  <2>3. UnitIsRecorded' /\ ArmedFits'
    BY <1>1, <1>4, <2>1 DEF UnitIsRecorded, ArmedFits
  <2> QED
    BY <1>1, <1>2, <2>1, <2>2, <2>3, EarlyStepKeeps
<1>5. CASE /\ Boot!MayStage /\ artifacts' = [artifacts EXCEPT !["confirm"] = machine.carries]
           /\ machine' = [machine EXCEPT !.stage = "engine", !.unit = TRUE]
  <2>1. /\ machine' \in [stage : {"userspace", "stage", "engine"}, requested : Nat, carries : Nat,
                         unit : BOOLEAN]
        /\ machine'.stage = "engine" /\ machine'.requested = machine.requested
    <3> DEFINE M == [stage : {"userspace", "stage", "engine"}, requested : Nat, carries : Nat,
                     unit : BOOLEAN]
               m == [machine EXCEPT !.stage = "engine"]
    <3>1. m \in M /\ m.stage = "engine" /\ m.requested = machine.requested
      BY DEF ArtifactsType
    <3>2. machine' = [m EXCEPT !.unit = TRUE]
      BY <1>5
    <3> HIDE DEF m
    <3> QED
      BY <3>1, <3>2
  <2>2. /\ artifacts' \in Digest /\ artifacts'["confirm"] = restore.digest["confirm"]
        /\ artifacts = restore.digest => artifacts' = artifacts
    BY <1>2, <1>5 DEF Digest, Boot!MayStage
  <2>3. ArtifactsType'
    BY <1>1, <2>1, <2>2 DEF ArtifactsType
  <2>4. UnitIsRecorded' /\ ArmedFits'
    BY <1>1, <2>1, <2>2 DEF UnitIsRecorded, ArmedFits
  <2> QED
    BY <1>1, <1>2, <2>1, <2>3, <2>4, EarlyStepKeeps
<1> QED
  BY <1>3, <1>4, <1>5, Zenon DEF Boot!Stage

LEMMA PhaseIs ==
  ASSUME ArtifactsInv, NEW p \in {"Applying", "Booted", "Over"}
  PROVE  /\ [restore EXCEPT !.phase = p] \in Restore
         /\ [restore EXCEPT !.phase = p].phase = p
         /\ [restore EXCEPT !.phase = p].id = restore.id
         /\ [restore EXCEPT !.phase = p].digest = restore.digest
BY DEF ArtifactsInv, ArtifactsType, Restore, Boot!InFlight

LEMMA EnginePreserves ==
  ASSUME ArtifactsInv, Boot!BeginApply \/ Boot!Engine
  PROVE  ArtifactsInv'
<1> USE DEF ArtifactsInv
<1>1. /\ machine.stage = "engine" /\ UNCHANGED <<artifacts, drawn, selector, steps, overlapped>>
      /\ machine' \in {machine, Boot!Userspace(machine, machine.unit)}
  BY DEF Boot!BeginApply, Boot!Engine
<1>2. restore' \in {restore} \cup {[restore EXCEPT !.phase = p] : p \in {"Applying", "Booted", "Over"}}
  BY DEF Boot!BeginApply, Boot!Engine
<1>3. /\ restore' \in Restore /\ restore'.id = restore.id /\ restore'.digest = restore.digest
      /\ restore' # restore => restore'.phase # "Armed"
  BY <1>2, PhaseIs DEF ArtifactsType
<1>4. /\ machine' \in [stage : {"userspace", "stage", "engine"}, requested : Nat, carries : Nat,
                       unit : BOOLEAN]
      /\ machine'.stage \in {"engine", "userspace"} /\ machine'.unit = machine.unit
      /\ machine'.requested = machine.requested
  BY <1>1, MachineIs DEF ArtifactsType
<1>5. menu' \in {0, menu} /\ (restore' = restore => menu' = menu)
  BY PhaseIs DEF Boot!BeginApply, Boot!Engine
<1>6. installed' \in Digest
  BY DEF Boot!BeginApply, Boot!Engine, ArtifactsType, Digest, Boot!Builds
<1>7. ArtifactsType'
  BY <1>1, <1>3, <1>4, <1>5, <1>6 DEF ArtifactsType
<1>8. UnitIsRecorded'
  BY <1>1, <1>3, <1>4 DEF UnitIsRecorded
<1>9. ArmedFits'
  BY <1>1, <1>3, <1>5 DEF ArmedFits
<1>10. restore'.id <= drawn /\ machine'.requested <= drawn
  BY <1>3, <1>4 DEF IdsAreDrawn
<1> QED
  BY <1>1, <1>7, <1>8, <1>9, <1>10, EarlyStepKeeps

LEMMA ReconciliationPreserves ==
  ASSUME ArtifactsInv, Boot!Reconcile
  PROVE  ArtifactsInv'
<1> USE DEF ArtifactsInv
<1>1. /\ machine.stage = "userspace" /\ Inherited /\ selector' \in {0, selector} /\ menu' \in {0, menu}
      /\ UNCHANGED <<installed, artifacts, drawn, machine, steps, overlapped>>
      /\ restore' \in {Boot!NoRestore, [restore EXCEPT !.phase = "Over"]}
  BY DEF Boot!Reconcile, Inherited, Boot!InFlight
<1>2. /\ restore' \in Restore /\ restore'.id <= drawn /\ restore'.phase # "Armed"
      /\ Inherited' => restore'.digest = restore.digest
  <2>1. CASE restore' = Boot!NoRestore
    BY <2>1, ConstantsOfBoot DEF ArtifactsType, Inherited, Boot!InFlight
  <2>2. CASE restore' = [restore EXCEPT !.phase = "Over"]
    BY <2>2, PhaseIs DEF IdsAreDrawn
  <2> QED
    BY <1>1, <2>1, <2>2
<1>3. ArtifactsType'
  BY <1>1, <1>2 DEF ArtifactsType
<1>4. IdsAreDrawn' /\ CallsInUserspace' /\ ArmedFits'
  BY <1>1, <1>2 DEF IdsAreDrawn, CallsInUserspace, ArmedFits, ArtifactsType
<1>5. \A c \in Schedulers : steps[c].at \notin Scheduling
  BY <1>1 DEF InheritedIsAlone
<1>6. InheritedIsAlone' /\ UnitIsRecorded'
  BY <1>1, <1>2, <1>5 DEF InheritedIsAlone, UnitIsRecorded
<1>7. OneAtATime'
  BY <1>1, <1>5 DEF OneAtATime, CallFits, Scheduling, Arming
<1> QED
  BY <1>3, <1>4, <1>6, <1>7

LEMMA ArtifactsKeep == ArtifactsInv /\ Boot!Next => ArtifactsInv'
BY LateCallsPreserve, BeginsPreserve, CopyPreserves, HashPreserves, RecordPreserves,
   GrubPreserves, ArmPreserves, PackagesPreserve, BootPreserves, StagePreserves,
   EnginePreserves, ReconciliationPreserves
   DEF Boot!Next

LEMMA ArtifactsFitThen == ArtifactsInv => Boot!ArtifactsFitRecord
<1> SUFFICES ASSUME ArtifactsInv PROVE Boot!ArtifactsFitRecord
  OBVIOUS
<1>1. machine.stage \in {"userspace", "stage", "engine"}
  BY DEF ArtifactsInv, ArtifactsType
<1> QED
  BY <1>1 DEF ArtifactsInv, ArmedFits, UnitIsRecorded, Inherited, Boot!ArtifactsFitRecord

LEMMA ArtifactsRest == ArtifactsInv /\ UNCHANGED ofBoot => ArtifactsInv'
BY DEF ofBoot, ArtifactsInv, ArtifactsType, IdsAreDrawn, CallsInUserspace, InheritedIsAlone,
       UnitIsRecorded, OneAtATime, ArmedFits, Inherited, CallFits

(*****************************************************************************)
(* The programs side by side.                                                *)
(*****************************************************************************)
SideBySide ==
  /\ program = "browsing" => HelperInv
  /\ program = "requests" => LimitsInv
  /\ program = "automation" => AutomationInv
  /\ program = "boot artifacts" => ArtifactsInv

LEMMA SideBySideStarts == ProgramInit => SideBySide
BY HelperStarts, RequestsStart, AutomationStarts, ArtifactsStart DEF ProgramInit, SideBySide

\* A step in which nothing of a program changes leaves its invariant.
LEMMA HelperRests == HelperInv /\ UNCHANGED ofHelper => HelperInv'
BY DEF ofHelper, HelperInv, HelperType, LeasesGranted, ChecksCovered, CheckCovered,
       DeletionsApart, Helper!At, Helper!DeletionRuns, Helper!ProtectedStays

LEMMA RequestsRest == LimitsInv /\ UNCHANGED ofRequests => LimitsInv'
BY DEF ofRequests, LimitsInv, RequestsType, RateKept, QuotaKept, Forgotten,
       Requests!Expired, Requests!Never

LEMMA StepIsOfOne ==
  ASSUME ProgramNext
  PROVE  /\ program' = program
         /\ program = "browsing" => Helper!Next
         /\ program = "requests" => Requests!Next
         /\ program = "automation" => Scheduler!Next
         /\ program = "boot artifacts" => Boot!Next
BY DEF ProgramNext

LEMMA SideBySideKept == SideBySide /\ [ProgramNext]_programVars => SideBySide'
<1> SUFFICES ASSUME SideBySide, [ProgramNext]_programVars PROVE SideBySide'
  OBVIOUS
<1>1. CASE ProgramNext
  BY <1>1, StepIsOfOne, HelperKeeps, LimitsKeep, AutomationKeeps, ArtifactsKeep DEF SideBySide
<1>2. CASE UNCHANGED programVars
  <2>1. /\ program' = program /\ UNCHANGED ofHelper /\ UNCHANGED ofRequests
        /\ UNCHANGED ofScheduler /\ UNCHANGED ofBoot
    BY <1>2 DEF programVars
  <2>2. UNCHANGED <<time, policy, turn, snapped, offSince>>
    BY <2>1 DEF ofScheduler
  <2> QED
    BY <2>1, <2>2, HelperRests, RequestsRest, AutomationRests, ArtifactsRest DEF SideBySide
<1> QED
  BY <1>1, <1>2

LEMMA SideBySideHolds == ProgramSpec => []SideBySide
BY SideBySideStarts, SideBySideKept, PTL DEF ProgramSpec

\* Whatever calls overtake each other in the helper: a snapshot is read only under a
\* lease that an administrator granted to that caller, and is not deleted meanwhile;
\* and no window of time holds more unasked snapshots than its limit.
THEOREM HelperAlwaysSafe == ProgramSpec => []HelperIsSafe
<1>1. SideBySide => HelperIsSafe
  BY HelperIsSafeThen, LimitsThen DEF SideBySide, HelperIsSafe, BrowsingIsSafe, LimitsHold
<1> QED
  BY <1>1, SideBySideHolds, PTL

\* A policy saved while a call sleeps, a second caller, restarts: no automatic snapshot of
\* a scope is taken later than the notice a call had given when the scope was turned off,
\* and none sooner than the interval after the last.
THEOREM AutomationAlwaysObeys == ProgramSpec => []AutomationObeys
<1>1. SideBySide => AutomationObeys
  BY DEF SideBySide, AutomationObeys, AutomationInv, Scheduler!AutomationObeys
<1> QED
  BY <1>1, SideBySideHolds, PTL

\* Whatever is installed, upgraded or booted while a restore is pending: it starts with the
\* kernel, initramfs and engine it was armed with and GRUB knows its entry, unless two calls
\* overlapped; and the engine that the unit runs is the recorded one even then.
THEOREM ArtifactsAlwaysFit == ProgramSpec => []ArtifactsFitRecord
<1>1. SideBySide => ArtifactsFitRecord
  BY ArtifactsFitThen DEF SideBySide, ArtifactsFitRecord
<1> QED
  BY <1>1, SideBySideHolds, PTL
=============================================================================
