---------------------------- MODULE SecurityKeyProofs ----------------------------
(***************************************************************************)
(* Proofs about who may use sudo, for any number of accounts, keys,        *)
(* credentials and helper runs: the four files that the helper writes one  *)
(* after the other, and that a run may leave half written, never accept    *)
(* what the page does not list, never lock an account out and never change *)
(* anybody's policy but by its own choice.  Then the other pages of the    *)
(* key manager: the keys it shows, the SSH configuration it edits, and     *)
(* what it says of the credentials in the keys and of Git's settings.      *)
(***************************************************************************)
EXTENDS Programs, FiniteSetTheorems, SequenceTheorems, TLAPS

(*****************************************************************************)
(* Who may use sudo (SecurityKeys).                                          *)
(*****************************************************************************)
Credential == [key : Keys, number : Nat, sure : BOOLEAN]
Enrollment == [user : Accounts, serial : Keys, cred : Credential]

PolicyRequest == [op : {"Enable", "Disable"}, user : Accounts, step : {1}]
RemovalAt(S) == [op : {"Remove"}, user : Accounts, serial : Keys, step : S]
EnrolmentAt(S) == [op : {"Enroll"}, user : Accounts, serial : Keys, cred : Credential, step : S]
PolicyWrite == [op : {"Enable", "Disable"}, user : Accounts, step : 2 .. 4, managed : SUBSET Accounts,
                installer : SUBSET Accounts, listed : SUBSET Accounts]
RepairRun == [op : {"Repair"}, step : 1 .. 3]

HelperRequest == PolicyRequest \cup RemovalAt({1}) \cup EnrolmentAt({1})
HelperRun ==
  {Pam!NoRun} \cup PolicyRequest \cup RemovalAt(1 .. 3) \cup EnrolmentAt(1 .. 3)
    \cup PolicyWrite \cup RepairRun

SudoPage ==
  [stage : {"closed", "waiting"}]
    \cup [stage : {"shown"}, policy : BOOLEAN, active : SUBSET Keys]
    \cup [stage : {"touch"}, serial : Keys, present : SUBSET Keys, moved : BOOLEAN]
    \cup [stage : {"helper"}, request : HelperRequest]

KeysType ==
  /\ enrolled \subseteq Enrollment
  /\ mapping \in [Accounts -> SUBSET Credential]
  /\ pam \in BOOLEAN
  /\ managed \subseteq Accounts /\ installer \subseteq Accounts /\ nopass \subseteq Accounts
  /\ minted \in Nat
  /\ window \in [Accounts -> SudoPage]
  /\ holder \in HelperRun
  /\ wish \in [Accounts -> BOOLEAN]
  /\ cut \subseteq Accounts /\ gaveUp \subseteq Accounts

\* The run that holds the lock, and for whom.
Does(u, op) == holder.op = op /\ holder.user = u
Works(u) == holder.op \in {"Enroll", "Remove", "Enable", "Disable"} /\ holder.user = u
Decides(u) == holder.op \in {"Enable", "Disable"} /\ holder.user = u /\ holder.step > 1

Listed(u, s) == \E e \in enrolled : e.user = u /\ e.serial = s

\* A page shows what is so, as long as nobody's run was cut off; it asks for an
\* enrolment of a serial that is not listed; and while its run works it waits.
PageFits(u) ==
  /\ window[u].stage = "shown" =>
       /\ \A s \in Keys : s \in window[u].active <=> Listed(u, s)
       /\ u \notin cut => (window[u].policy <=> u \in managed)
  /\ window[u].stage = "touch" =>
       /\ ~Listed(u, window[u].serial)
       /\ ~window[u].moved => window[u].present = {window[u].serial}
  /\ window[u].stage = "helper" =>
       /\ window[u].request.user = u
       /\ window[u].request.op = "Enroll" => ~Listed(u, window[u].request.serial)
  /\ Works(u) => window[u].stage = "waiting"

\* A credential is new until its run has written it.
Asks(u) == window[u].stage = "helper" /\ window[u].request.op = "Enroll"
Wanted(u) == window[u].request.cred

Unwritten(c) ==
  /\ \A u \in Accounts : \A d \in mapping[u] : d.number # c.number
  /\ \A e \in enrolled : e.cred.number # c.number

NumbersFit ==
  /\ \A u \in Accounts : \A d \in mapping[u] : d.number <= minted
  /\ \A e \in enrolled : e.cred.number <= minted
  /\ \A e, f \in enrolled : e.cred.number = f.cred.number => e = f
  /\ \A u \in Accounts : Asks(u) =>
       /\ Unwritten(Wanted(u)) /\ Wanted(u).number <= minted
       /\ holder.op = "Enroll" => holder.cred.number # Wanted(u).number
  /\ \A u, v \in Accounts : Asks(u) /\ Asks(v) /\ Wanted(u).number = Wanted(v).number => u = v
  /\ holder.op = "Enroll" =>
       /\ holder.cred.number <= minted
       /\ holder.step = 1 => Unwritten(holder.cred)
       /\ holder.step = 2 => \A e \in enrolled : e.cred.number # holder.cred.number

\* Where no key came or went, a credential is of the key it is listed under.
NamesFit ==
  /\ \A e \in enrolled : e.cred.sure => e.cred.key = e.serial
  /\ \A u \in Accounts : Asks(u) /\ Wanted(u).sure => Wanted(u).key = window[u].request.serial
  /\ holder.op = "Enroll" /\ holder.cred.sure => holder.cred.key = holder.serial

\* What a run on keys has written so far.
KeyRunFits ==
  /\ holder.op = "Enroll" =>
       /\ holder.step < 3 => ~Listed(holder.user, holder.serial)
       /\ holder.step > 1 => holder.cred \in mapping[holder.user]
       /\ holder.step = 3 => \E e \in enrolled : e.user = holder.user /\ e.cred = holder.cred
  /\ holder.op = "Remove" /\ holder.step > 1 =>
       \A e \in enrolled : e.user = holder.user /\ e.serial = holder.serial =>
         e.cred \notin mapping[holder.user]

\* The three files of the keys agree, but for what the run at work and the runs that
\* were cut off have left.
FilesAgree ==
  /\ \A u \in Accounts : \A c \in mapping[u] :
       \/ \E e \in enrolled : e.user = u /\ e.cred = c
       \/ c \in orphans /\ u \in cut
       \/ Does(u, "Enroll") /\ holder.cred = c
  /\ \A e \in enrolled :
       \/ e.user \in cut \/ e.cred \in mapping[e.user]
       \/ Does(e.user, "Remove") /\ holder.step = 2 /\ holder.serial = e.serial
  /\ ~pam => \A e \in enrolled : e.user \in cut \/ (Does(e.user, "Enroll") /\ holder.step = 3)

\* What a run on the policy has read: the rules of the others are as it read them, and
\* its own account could live with what it may restore.
OthersAsRead ==
  \A v \in Accounts \ (cut \cup {holder.user}) :
    /\ v \in holder.managed <=> v \in managed
    /\ v \in holder.installer <=> v \in installer
    /\ v \in holder.listed <=> v \in managed

OwnAsRead ==
  LET u == holder.user
      before == holder.managed \cup holder.installer
  IN /\ u \notin cut => (u \in nopass <=> u \in holder.managed) /\ (u \in before <=> wish[u])
     /\ u \in Locked => u \in before \/ Pam!Authenticates(u) \/ u \in gaveUp \cup cut

OwnSoFar ==
  /\ holder.op = "Disable" => holder.user \notin Locked \/ \E e \in enrolled : e.user = holder.user
  /\ holder.op = "Enable" /\ holder.step = 4 => holder.user \in managed
  /\ holder.op = "Disable" /\ holder.step = 4 => holder.user \notin managed \cup installer

PolicyRunFits ==
  holder.op \in {"Enable", "Disable"} /\ holder.step > 1 => OthersAsRead /\ OwnAsRead /\ OwnSoFar

PolicyFits ==
  /\ Pam!SwitchNeverLocksOut
  /\ \A u \in Accounts \ cut : Decides(u) \/
       ((Pam!Passwordless(u) <=> wish[u]) /\ (u \in nopass <=> u \in managed))

KeysInv ==
  /\ KeysType
  /\ \A u \in Accounts : PageFits(u)
  /\ NumbersFit /\ NamesFit /\ KeyRunFits /\ FilesAgree /\ PolicyRunFits /\ PolicyFits

LEMMA LockedAreAccounts == Locked \subseteq Accounts
BY ProgramsConstants DEF Pam!KeyConstants

LEMMA NoRunIs ==
  /\ Pam!NoRun.op = "None" /\ Pam!NoRun \in HelperRun
  /\ Pam!Closed.stage = "closed" /\ Pam!Closed \in SudoPage
BY DEF Pam!NoRun, Pam!Closed, HelperRun, SudoPage

LEMMA KeysStart == Pam!Init => KeysInv
<1> SUFFICES ASSUME Pam!Init PROVE KeysInv
  OBVIOUS
<1> USE LockedAreAccounts, NoRunIs DEF Pam!Init
<1>1. KeysType
  <2>1. window \in [Accounts -> SudoPage] /\ mapping \in [Accounts -> SUBSET Credential]
    OBVIOUS
  <2>2. wish \in [Accounts -> BOOLEAN] /\ holder \in HelperRun
    OBVIOUS
  <2> QED
    BY <2>1, <2>2 DEF KeysType
<1>2. \A u \in Accounts : PageFits(u)
  BY DEF PageFits, Works
<1>3. NumbersFit /\ NamesFit /\ KeyRunFits /\ FilesAgree
  BY DEF NumbersFit, NamesFit, KeyRunFits, FilesAgree, Asks
<1>4. PolicyRunFits /\ PolicyFits
  BY DEF PolicyRunFits, PolicyFits, Pam!SwitchNeverLocksOut, Pam!Passwordless
<1> QED
  BY <1>1, <1>2, <1>3, <1>4 DEF KeysInv

(*****************************************************************************)
(* The pages.                                                                *)
(*****************************************************************************)
LEMMA HolderKinds ==
  ASSUME KeysType
  PROVE  /\ holder.op \in {"None", "Enroll", "Remove", "Enable", "Disable", "Repair"}
         /\ holder.op = "None" => holder = Pam!NoRun
         /\ holder.op = "Enroll" => holder \in EnrolmentAt(1 .. 3)
         /\ holder.op = "Remove" => holder \in RemovalAt(1 .. 3)
         /\ holder.op = "Repair" => holder \in RepairRun
         /\ holder.op \in {"Enable", "Disable"} /\ holder.step = 1 => holder \in PolicyRequest
         /\ holder.op \in {"Enable", "Disable"} /\ holder.step # 1 => holder \in PolicyWrite
BY NoRunIs DEF KeysType, HelperRun, PolicyRequest, RemovalAt, EnrolmentAt, PolicyWrite, RepairRun

LEMMA PageKinds ==
  ASSUME KeysType, NEW u \in Accounts
  PROVE  /\ window[u].stage \in {"closed", "waiting", "shown", "touch", "helper"}
         /\ window[u].stage = "shown" => window[u].policy \in BOOLEAN /\ window[u].active \subseteq Keys
         /\ window[u].stage = "touch" =>
              window[u] \in [stage : {"touch"}, serial : Keys, present : SUBSET Keys, moved : BOOLEAN]
         /\ window[u].stage = "helper" => window[u].request \in HelperRequest
BY DEF KeysType, SudoPage

\* One page goes on; nothing else happens, but that a credential may be made.
LEMMA PageStep ==
  ASSUME KeysInv, NEW u \in Accounts, NEW p \in SudoPage,
         window' = [window EXCEPT ![u] = p], minted' \in Nat, minted <= minted',
         UNCHANGED <<enrolled, mapping, pam, managed, installer, nopass, holder, wish, cut, orphans, gaveUp>>,
         PageFits(u)',
         Asks(u)' =>
           /\ Unwritten(Wanted(u)') /\ Wanted(u)'.number <= minted' /\ Wanted(u)'.number \in Nat
           /\ holder.op = "Enroll" => holder.cred.number # Wanted(u)'.number
           /\ \A v \in Accounts \ {u} : Asks(v) => Wanted(v).number # Wanted(u)'.number
           /\ Wanted(u)'.sure => Wanted(u)'.key = p.request.serial
  PROVE  KeysInv'
<1> USE DEF KeysInv
<1>1. /\ KeysType' /\ window'[u] = p
      /\ \A v \in Accounts \ {u} : window'[v] = window[v]
  BY DEF KeysType
<1>2. ASSUME NEW v \in Accounts PROVE PageFits(v)'
  BY <1>1 DEF PageFits, Works, Listed
<1>3. \A v \in Accounts \ {u} : Asks(v)' = Asks(v) /\ Wanted(v)' = Wanted(v)
  BY <1>1 DEF Asks, Wanted
<1>4. \A c : Unwritten(c)' = Unwritten(c)
  BY DEF Unwritten
<1>5. /\ \A v \in Accounts : \A d \in mapping[v] : d.number \in Nat
      /\ \A e \in enrolled : e.cred.number \in Nat
      /\ \A v \in Accounts : Asks(v) => Wanted(v).number \in Nat
      /\ holder.op = "Enroll" => holder.cred.number \in Nat
  <2>1. ASSUME NEW v \in Accounts, Asks(v) PROVE Wanted(v).number \in Nat
    BY <2>1, PageKinds DEF Asks, Wanted, HelperRequest, EnrolmentAt, RemovalAt, PolicyRequest, Credential
  <2> QED
    BY <2>1, HolderKinds DEF KeysType, Credential, Enrollment, EnrolmentAt
<1>6. NumbersFit'
  <2>1. /\ \A v \in Accounts : \A d \in mapping'[v] : d.number <= minted'
        /\ \A e \in enrolled' : e.cred.number <= minted'
        /\ \A e, f \in enrolled' : e.cred.number = f.cred.number => e = f
    BY <1>5 DEF NumbersFit, KeysType
  <2>2. ASSUME NEW v \in Accounts, Asks(v)'
        PROVE  /\ Unwritten(Wanted(v))' /\ Wanted(v)'.number <= minted'
               /\ holder'.op = "Enroll" => holder'.cred.number # Wanted(v)'.number
    <3>1. CASE v = u
      BY <2>2, <3>1 DEF Unwritten
    <3>2. CASE v # u
      BY <1>3, <1>5, <2>2, <3>2 DEF NumbersFit, KeysType, Unwritten
    <3> QED
      BY <3>1, <3>2
  <2>3. \A v, w \in Accounts : Asks(v)' /\ Asks(w)' /\ Wanted(v)'.number = Wanted(w)'.number => v = w
    BY <1>3 DEF NumbersFit
  <2>4. holder.op = "Enroll" =>
          /\ holder.cred.number <= minted'
          /\ holder.step = 1 => Unwritten(holder.cred)'
          /\ holder.step = 2 => \A e \in enrolled : e.cred.number # holder.cred.number
    BY <1>5 DEF NumbersFit, KeysType, Unwritten
  <2> QED
    BY <2>1, <2>2, <2>3, <2>4 DEF NumbersFit
<1>7. NamesFit'
  BY <1>1, <1>3 DEF NamesFit
<1>8. KeyRunFits' /\ FilesAgree'
  BY DEF KeyRunFits, FilesAgree, Listed, Does
<1>9. PolicyRunFits' /\ PolicyFits'
  BY DEF PolicyRunFits, OthersAsRead, OwnAsRead, OwnSoFar, PolicyFits, Pam!SwitchNeverLocksOut,
         Pam!Passwordless, Pam!Authenticates, Decides
<1> QED
  BY <1>1, <1>2, <1>6, <1>7, <1>8, <1>9

\* The page asks for nothing.
LEMMA QuietPage ==
  ASSUME KeysInv, NEW u \in Accounts, NEW p \in SudoPage,
         window' = [window EXCEPT ![u] = p],
         UNCHANGED <<enrolled, mapping, pam, managed, installer, nopass, minted, holder, wish, cut, orphans, gaveUp>>,
         PageFits(u)', ~Asks(u)'
  PROVE  KeysInv'
<1>1. minted' \in Nat /\ minted <= minted'
  BY DEF KeysInv, KeysType
<1> QED
  BY <1>1, PageStep

LEMMA OpenPreserves ==
  ASSUME KeysInv, NEW u \in Accounts, Pam!OpenPage(u)
  PROVE  KeysInv'
<1> USE DEF KeysInv
<1>1. /\ window[u].stage = "closed"
      /\ UNCHANGED <<enrolled, mapping, pam, managed, installer, nopass, minted, holder, wish, cut, orphans, gaveUp>>
  BY DEF Pam!OpenPage, Pam!keyFiles, Pam!policyFiles, Pam!histories
<1>2. PICK A \in SUBSET Keys : A = {e.serial : e \in Pam!EnrolledBy(u)}
  BY DEF KeysType, Enrollment, Pam!EnrolledBy
<1> DEFINE b == u \in nopass
           p == [stage |-> "shown", policy |-> b, active |-> A]
<1>3. b \in BOOLEAN /\ (b <=> u \in nopass)
  OBVIOUS
<1>4. p \in SudoPage /\ p.stage = "shown" /\ p.policy = b /\ p.active = A
  <2> HIDE DEF b
  <2> QED
    BY <1>3 DEF SudoPage
<1>5. window' = [window EXCEPT ![u] = p]
  BY <1>2 DEF Pam!OpenPage
<1> HIDE DEF p, b
<1>6. window'[u] = p
  BY <1>5 DEF KeysType
<1>7. \A s \in Keys : s \in A <=> Listed(u, s)
  BY <1>2 DEF Listed, Pam!EnrolledBy
<1>8. ~Works(u)
  BY <1>1 DEF PageFits
<1>9. u \notin cut => (b <=> u \in managed)
  BY <1>3, <1>8 DEF PolicyFits, Decides, Works
<1>10. PageFits(u)'
  BY <1>1, <1>4, <1>6, <1>7, <1>8, <1>9 DEF PageFits, Listed, Works
<1>11. ~Asks(u)'
  BY <1>4, <1>6 DEF Asks
<1> HIDE DEF KeysInv
<1> QED
  BY <1>1, <1>4, <1>5, <1>10, <1>11, QuietPage

LEMMA ClosePreserves ==
  ASSUME KeysInv, NEW u \in Accounts, Pam!ClosePage(u) \/ Pam!TouchTimesOut(u) \/ Pam!Dismiss(u)
  PROVE  KeysInv'
<1> USE DEF KeysInv
<1>1. /\ window[u].stage \in {"shown", "touch", "helper"}
      /\ window' = [window EXCEPT ![u] = Pam!Closed]
      /\ UNCHANGED <<enrolled, mapping, pam, managed, installer, nopass, minted, holder, wish, cut, orphans, gaveUp>>
  BY DEF Pam!ClosePage, Pam!TouchTimesOut, Pam!Dismiss, Pam!Leave, Pam!keyFiles, Pam!policyFiles, Pam!histories
<1>2. window'[u].stage = "closed"
  BY <1>1, NoRunIs DEF KeysType
<1>3. PageFits(u)' /\ ~Asks(u)'
  BY <1>1, <1>2 DEF PageFits, Works, Asks
<1> HIDE DEF KeysInv
<1> QED
  BY <1>1, <1>3, NoRunIs, QuietPage

\* A page asks the helper.
LEMMA AskStep ==
  ASSUME KeysInv, NEW u \in Accounts, window[u].stage \in {"shown", "touch"},
         NEW r \in HelperRequest, r.user = u,
         window' = [window EXCEPT ![u] = [stage |-> "helper", request |-> r]],
         minted' \in Nat, minted <= minted',
         UNCHANGED <<enrolled, mapping, pam, managed, installer, nopass, holder, wish, cut, orphans, gaveUp>>,
         r.op = "Enroll" =>
           /\ ~Listed(u, r.serial)
           /\ Unwritten(r.cred) /\ r.cred.number <= minted' /\ r.cred.number \in Nat
           /\ holder.op = "Enroll" => holder.cred.number # r.cred.number
           /\ \A v \in Accounts \ {u} : Asks(v) => Wanted(v).number # r.cred.number
           /\ r.cred.sure => r.cred.key = r.serial
  PROVE  KeysInv'
<1> USE DEF KeysInv
<1> DEFINE p == [stage |-> "helper", request |-> r]
<1>1. p \in SudoPage /\ p.stage = "helper" /\ p.request = r
  BY DEF SudoPage
<1> HIDE DEF p
<1>2. window' = [window EXCEPT ![u] = p] /\ window'[u] = p
  BY DEF KeysType, p
<1>3. PageFits(u)'
  BY <1>1, <1>2 DEF PageFits, Listed, Works
<1>4. Wanted(u)' = r.cred /\ (Asks(u)' <=> r.op = "Enroll")
  BY <1>1, <1>2 DEF Wanted, Asks
<1>5. Asks(u)' =>
        /\ Unwritten(Wanted(u)') /\ Wanted(u)'.number <= minted' /\ Wanted(u)'.number \in Nat
        /\ holder.op = "Enroll" => holder.cred.number # Wanted(u)'.number
        /\ \A v \in Accounts \ {u} : Asks(v) => Wanted(v).number # Wanted(u)'.number
        /\ Wanted(u)'.sure => Wanted(u)'.key = p.request.serial
  BY <1>1, <1>4
<1> HIDE DEF KeysInv
<1> QED
  BY <1>1, <1>2, <1>3, <1>5, PageStep

LEMMA TogglePreserves ==
  ASSUME KeysInv, NEW u \in Accounts, Pam!TogglePolicy(u) \/ Pam!ToggleOff(u)
  PROVE  KeysInv'
<1> USE DEF KeysInv
<1>1. /\ window[u].stage = "shown"
      /\ UNCHANGED <<enrolled, mapping, pam, managed, installer, nopass, minted, holder, wish, cut, orphans, gaveUp>>
  BY DEF Pam!TogglePolicy, Pam!ToggleOff, Pam!keyFiles, Pam!policyFiles, Pam!histories
<1>2. minted' \in Nat /\ minted <= minted'
  BY <1>1 DEF KeysType
<1>3. CASE Pam!TogglePolicy(u)
  <2>1. PICK op \in {"Enable", "Disable"} :
          window' = [window EXCEPT ![u] = [stage |-> "helper", request |-> [op |-> op, user |-> u, step |-> 1]]]
    BY <1>3 DEF Pam!TogglePolicy, Pam!AskHelper
  <2> DEFINE r == [op |-> op, user |-> u, step |-> 1]
  <2>2. r \in HelperRequest /\ r.user = u /\ r.op # "Enroll"
    BY DEF HelperRequest, PolicyRequest
  <2> HIDE DEF KeysInv
  <2> QED
    BY <1>1, <1>2, <2>1, <2>2, AskStep
<1>4. CASE Pam!ToggleOff(u)
  <2>1. PICK s \in window[u].active :
          window' = [window EXCEPT ![u] =
            [stage |-> "helper", request |-> [op |-> "Remove", user |-> u, serial |-> s, step |-> 1]]]
    BY <1>4 DEF Pam!ToggleOff, Pam!AskHelper
  <2>2. s \in Keys
    BY <1>1, <2>1, PageKinds
  <2> DEFINE r == [op |-> "Remove", user |-> u, serial |-> s, step |-> 1]
  <2>3. r \in HelperRequest /\ r.user = u /\ r.op # "Enroll"
    BY <2>2 DEF HelperRequest, RemovalAt
  <2> HIDE DEF KeysInv
  <2> QED
    BY <1>1, <1>2, <2>1, <2>3, AskStep
<1> QED
  BY <1>3, <1>4

LEMMA ToggleOnPreserves ==
  ASSUME KeysInv, NEW u \in Accounts, Pam!ToggleOn(u)
  PROVE  KeysInv'
<1> USE DEF KeysInv
<1>1. /\ window[u].stage = "shown"
      /\ UNCHANGED <<enrolled, mapping, pam, managed, installer, nopass, minted, holder, wish, cut, orphans, gaveUp>>
  BY DEF Pam!ToggleOn, Pam!keyFiles, Pam!policyFiles, Pam!histories
<1>2. PICK P \in SUBSET Keys, s \in Keys \ window[u].active :
        \/ P = {s} /\ window' = [window EXCEPT ![u] = [stage |-> "touch", serial |-> s, present |-> P, moved |-> FALSE]]
        \/ window' = [window EXCEPT ![u] = Pam!Closed]
  BY DEF Pam!ToggleOn, Pam!SoleKeyIs, Pam!Leave
<1>3. ~Listed(u, s) /\ ~Works(u)
  BY <1>1, <1>2 DEF PageFits
<1>4. CASE window' = [window EXCEPT ![u] = Pam!Closed]
  <2>1. window'[u].stage = "closed"
    BY <1>4, NoRunIs DEF KeysType
  <2>2. PageFits(u)' /\ ~Asks(u)'
    BY <1>1, <1>3, <2>1 DEF PageFits, Works, Asks
  <2> HIDE DEF KeysInv
  <2> QED
    BY <1>1, <1>4, <2>2, NoRunIs, QuietPage
<1>5. CASE P = {s} /\ window' = [window EXCEPT ![u] = [stage |-> "touch", serial |-> s, present |-> P, moved |-> FALSE]]
  <2> DEFINE p == [stage |-> "touch", serial |-> s, present |-> P, moved |-> FALSE]
  <2>1. p \in SudoPage /\ p.stage = "touch" /\ p.serial = s /\ p.present = P
    BY <1>2 DEF SudoPage
  <2> HIDE DEF p
  <2>2. window' = [window EXCEPT ![u] = p] /\ window'[u] = p
    BY <1>5 DEF KeysType, p
  <2>3. PageFits(u)' /\ ~Asks(u)'
    BY <1>1, <1>3, <1>5, <2>1, <2>2 DEF PageFits, Listed, Works, Asks
  <2> HIDE DEF KeysInv
  <2> QED
    BY <1>1, <2>1, <2>2, <2>3, QuietPage
<1> QED
  BY <1>2, <1>4, <1>5

LEMMA PlugPreserves ==
  ASSUME KeysInv, NEW u \in Accounts, Pam!Plug(u)
  PROVE  KeysInv'
<1> USE DEF KeysInv
<1>1. /\ window[u].stage = "touch"
      /\ UNCHANGED <<enrolled, mapping, pam, managed, installer, nopass, minted, holder, wish, cut, orphans, gaveUp>>
  BY DEF Pam!Plug, Pam!keyFiles, Pam!policyFiles, Pam!histories
<1>2. PICK P \in SUBSET Keys : window' = [window EXCEPT ![u].present = P, ![u].moved = TRUE]
  BY DEF Pam!Plug
<1>3. window[u] \in [stage : {"touch"}, serial : Keys, present : SUBSET Keys, moved : BOOLEAN]
  BY <1>1, PageKinds
<1> DEFINE p == [[window[u] EXCEPT !.present = P] EXCEPT !.moved = TRUE]
<1>4. p \in [stage : {"touch"}, serial : Keys, present : SUBSET Keys, moved : {TRUE}] /\ p.serial = window[u].serial
  <2> DEFINE q == [window[u] EXCEPT !.present = P]
  <2>1. q \in [stage : {"touch"}, serial : Keys, present : SUBSET Keys, moved : BOOLEAN] /\ q.serial = window[u].serial
    BY <1>2, <1>3
  <2> HIDE DEF q
  <2>2. [q EXCEPT !.moved = TRUE] \in [stage : {"touch"}, serial : Keys, present : SUBSET Keys, moved : {TRUE}]
        /\ [q EXCEPT !.moved = TRUE].serial = q.serial
    BY <2>1
  <2> QED
    BY <2>1, <2>2 DEF q
<1>5. window' = [window EXCEPT ![u] = p]
  <2> DEFINE one == [window EXCEPT ![u].present = P]
  <2>1. window' = [one EXCEPT ![u].moved = TRUE]
    BY <1>2
  <2>2. DOMAIN one = Accounts /\ \A v \in Accounts : one[v] = IF v = u THEN [window[u] EXCEPT !.present = P] ELSE window[v]
    BY DEF KeysType
  <2> HIDE DEF one
  <2>3. DOMAIN window' = Accounts /\ \A v \in Accounts : window'[v] = IF v = u THEN [one[u] EXCEPT !.moved = TRUE] ELSE one[v]
    BY <2>1, <2>2
  <2>4. window' = [v \in Accounts |-> window'[v]]
    BY <2>1, <2>2
  <2>5. \A v \in Accounts : window'[v] = IF v = u THEN p ELSE window[v]
    BY <2>2, <2>3
  <2> HIDE DEF p
  <2> QED
    BY <2>4, <2>5 DEF KeysType
<1> HIDE DEF p
<1>6. window'[u] = p /\ p \in SudoPage
  BY <1>4, <1>5 DEF KeysType, SudoPage
<1>7. window'[u].stage = "touch" /\ window'[u].moved /\ window'[u].serial = window[u].serial
  BY <1>4, <1>6
<1>8. PageFits(u)' /\ ~Asks(u)'
  BY <1>1, <1>7 DEF PageFits, Listed, Works, Asks
<1> HIDE DEF KeysInv
<1> QED
  BY <1>1, <1>5, <1>6, <1>8, QuietPage

LEMMA TouchPreserves ==
  ASSUME KeysInv, NEW u \in Accounts, Pam!Touch(u)
  PROVE  KeysInv'
<1> USE DEF KeysInv
<1>1. /\ window[u].stage = "touch" /\ minted' = minted + 1 /\ minted \in Nat
      /\ UNCHANGED <<enrolled, mapping, pam, managed, installer, nopass, holder, wish, cut, orphans, gaveUp>>
  BY DEF Pam!Touch, Pam!keyFiles, Pam!policyFiles, Pam!histories, KeysType
<1>2. window[u] \in [stage : {"touch"}, serial : Keys, present : SUBSET Keys, moved : BOOLEAN]
  BY <1>1, PageKinds
<1>3. PICK k \in window[u].present :
        window' = [window EXCEPT ![u] = [stage |-> "helper", request |->
          [op |-> "Enroll", user |-> u, serial |-> window[u].serial, step |-> 1,
           cred |-> [key |-> k, number |-> minted', sure |-> ~window[u].moved]]]]
  BY DEF Pam!Touch, Pam!AskHelper
<1> DEFINE c == [key |-> k, number |-> minted', sure |-> ~window[u].moved]
           r == [op |-> "Enroll", user |-> u, serial |-> window[u].serial, step |-> 1, cred |-> c]
<1>4. c \in Credential /\ c.key = k /\ c.number = minted + 1 /\ (c.sure => ~window[u].moved)
  <2>1. k \in Keys /\ window[u].moved \in BOOLEAN /\ minted' \in Nat
    BY <1>1, <1>2, <1>3
  <2>2. PICK b \in BOOLEAN : b = ~window[u].moved
    BY <2>1
  <2>3. c = [key |-> k, number |-> minted', sure |-> b]
    BY <2>2
  <2> QED
    BY <1>1, <2>1, <2>2, <2>3 DEF Credential
<1>5. window' = [window EXCEPT ![u] = [stage |-> "helper", request |-> r]]
  BY <1>3
<1> HIDE DEF c
<1>6. r \in HelperRequest /\ r.user = u /\ r.op = "Enroll" /\ r.serial = window[u].serial /\ r.cred = c
  BY <1>2, <1>4 DEF HelperRequest, EnrolmentAt
<1> HIDE DEF r
<1>7. ~Listed(u, r.serial) /\ (r.cred.sure => r.cred.key = r.serial)
  BY <1>1, <1>3, <1>4, <1>6 DEF PageFits
<1>8. /\ \A v \in Accounts : \A d \in mapping[v] : d.number \in Nat
      /\ \A e \in enrolled : e.cred.number \in Nat
      /\ \A v \in Accounts : Asks(v) => Wanted(v).number \in Nat
      /\ holder.op = "Enroll" => holder.cred.number \in Nat
  <2>1. ASSUME NEW v \in Accounts, Asks(v) PROVE Wanted(v).number \in Nat
    BY <2>1, PageKinds DEF Asks, Wanted, HelperRequest, EnrolmentAt, RemovalAt, PolicyRequest, Credential
  <2> QED
    BY <2>1, HolderKinds DEF KeysType, Credential, Enrollment, EnrolmentAt
<1>9. /\ Unwritten(r.cred)
      /\ holder.op = "Enroll" => holder.cred.number # r.cred.number
      /\ \A v \in Accounts \ {u} : Asks(v) => Wanted(v).number # r.cred.number
  BY <1>1, <1>4, <1>6, <1>8 DEF NumbersFit, Unwritten
<1>10. /\ r.cred.number <= minted' /\ r.cred.number \in Nat
       /\ minted' \in Nat /\ minted <= minted'
  BY <1>1, <1>4, <1>6
<1> HIDE DEF KeysInv
<1> QED
  BY <1>1, <1>5, <1>6, <1>7, <1>9, <1>10, AskStep

(*****************************************************************************)
(* The helper.                                                               *)
(*****************************************************************************)
LEMMA NoRunIdle ==
  ASSUME NEW u \in Accounts, holder' = Pam!NoRun
  PROVE  holder'.op = "None" /\ ~Works(u)' /\ ~Decides(u)' /\ (\A o \in {"Enroll", "Remove"} : ~Does(u, o)')
BY NoRunIs DEF Works, Decides, Does

\* A run ends: its page is closed.
LEMMA RunEnds ==
  ASSUME KeysInv, Pam!EndRun
  PROVE  /\ holder' = Pam!NoRun /\ holder' \in HelperRun
         /\ window' \in [Accounts -> SudoPage]
         /\ \A u \in Accounts : window'[u] = window[u] \/ window'[u].stage = "closed"
         /\ \A u \in Accounts : Works(u) => window'[u].stage = "closed"
<1> USE DEF KeysInv, KeysType
<1>1. CASE holder.op = "Repair"
  BY <1>1, NoRunIs DEF Pam!EndRun, Works
<1>2. CASE holder.op # "Repair"
  <2>1. holder' = Pam!NoRun /\ window' = [window EXCEPT ![holder.user] = Pam!Closed]
    BY <1>2 DEF Pam!EndRun
  <2>2. \A u \in Accounts : Works(u) => u = holder.user
    BY DEF Works
  <2> QED
    BY <2>1, <2>2, NoRunIs
<1> QED
  BY <1>1, <1>2

\* The pages others have open stay true.
LEMMA PagesKept ==
  ASSUME KeysInv, cut \subseteq cut',
         \A u \in Accounts : window'[u] = window[u] \/ window'[u].stage = "closed",
         \A u \in Accounts : Works(u)' => Works(u) /\ window'[u] = window[u],
         \A u \in Accounts : ~Works(u) =>
           /\ \A s : Listed(u, s)' <=> Listed(u, s)
           /\ u \notin cut' => (u \in managed' <=> u \in managed)
  PROVE  \A u \in Accounts : PageFits(u)'
<1> SUFFICES ASSUME NEW u \in Accounts PROVE PageFits(u)'
  OBVIOUS
<1>1. PageFits(u)
  BY DEF KeysInv
<1>2. Works(u)' => window'[u].stage = "waiting"
  BY <1>1 DEF PageFits
<1>3. CASE window'[u].stage = "closed"
  BY <1>2, <1>3 DEF PageFits
<1>4. CASE Works(u) /\ window'[u] = window[u]
  BY <1>1, <1>2, <1>4 DEF PageFits
<1>5. CASE ~Works(u) /\ window'[u] = window[u]
  <2>1. /\ \A s : Listed(u, s)' <=> Listed(u, s)
        /\ u \notin cut' => u \notin cut /\ (u \in managed' <=> u \in managed)
    BY <1>5
  <2> QED
    BY <1>1, <1>2, <1>5, <2>1 DEF PageFits
<1> QED
  BY <1>3, <1>4, <1>5

\* No credential is new, none is written that was not.
LEMMA NumbersKept ==
  ASSUME KeysInv, UNCHANGED minted, holder'.op # "Enroll",
         \A u \in Accounts : window'[u] = window[u] \/ window'[u].stage = "closed",
         \A u \in Accounts : \A d \in mapping'[u] :
           (\E v \in Accounts : d \in mapping[v]) \/ (\E e \in enrolled : e.cred = d),
         enrolled' \subseteq enrolled
  PROVE  NumbersFit' /\ NamesFit'
<1>1. NumbersFit /\ NamesFit
  BY DEF KeysInv
<1>2. ASSUME NEW u \in Accounts, Asks(u)'
      PROVE  Asks(u) /\ Wanted(u)' = Wanted(u) /\ window'[u] = window[u]
  BY <1>2 DEF Asks, Wanted
<1>3. ASSUME NEW u \in Accounts, NEW d \in mapping'[u] PROVE d.number <= minted'
  BY <1>1 DEF NumbersFit
<1>4. ASSUME NEW u \in Accounts, Asks(u)'
      PROVE  Unwritten(Wanted(u))' /\ Wanted(u)'.number <= minted'
  BY <1>1, <1>2, <1>4 DEF NumbersFit, Unwritten
<1>5. \A e \in enrolled' : e.cred.number <= minted'
  BY <1>1 DEF NumbersFit
<1>6. \A e, f \in enrolled' : e.cred.number = f.cred.number => e = f
  BY <1>1 DEF NumbersFit
<1>7. \A u, v \in Accounts : Asks(u)' /\ Asks(v)' /\ Wanted(u)'.number = Wanted(v)'.number => u = v
  BY <1>1, <1>2 DEF NumbersFit
<1>8. NumbersFit'
  BY <1>3, <1>4, <1>5, <1>6, <1>7 DEF NumbersFit
<1>9. NamesFit'
  BY <1>1, <1>2 DEF NamesFit
<1> QED
  BY <1>8, <1>9

LEMMA TakePreserves ==
  ASSUME KeysInv, NEW u \in Accounts, Pam!TakeLock(u)
  PROVE  KeysInv'
<1> USE DEF KeysInv
<1>1. /\ holder = Pam!NoRun /\ window[u].stage = "helper" /\ holder' = window[u].request
      /\ window' = [window EXCEPT ![u] = [stage |-> "waiting"]]
      /\ UNCHANGED <<enrolled, mapping, pam, managed, installer, nopass, minted, wish, cut, orphans, gaveUp>>
  BY DEF Pam!TakeLock, Pam!keyFiles, Pam!policyFiles, Pam!histories
<1>2. holder' \in HelperRequest /\ holder'.user = u /\ holder.op = "None"
  BY <1>1, PageKinds, NoRunIs DEF PageFits
<1>3. holder' \in HelperRun /\ holder'.step = 1
  BY <1>2 DEF HelperRequest, HelperRun, PolicyRequest, RemovalAt, EnrolmentAt
<1>4. /\ window' \in [Accounts -> SudoPage] /\ window'[u].stage = "waiting"
      /\ \A v \in Accounts \ {u} : window'[v] = window[v]
  <2> DEFINE p == [stage |-> "waiting"]
  <2>1. p \in SudoPage /\ p.stage = "waiting" /\ window' = [window EXCEPT ![u] = p]
    BY <1>1 DEF SudoPage
  <2> HIDE DEF p
  <2> QED
    BY <2>1 DEF KeysType
<1>5. KeysType'
  BY <1>1, <1>3, <1>4 DEF KeysType
<1>6. ASSUME NEW v \in Accounts PROVE PageFits(v)'
  <2>1. CASE v = u
    BY <1>4, <2>1 DEF PageFits
  <2>2. CASE v # u
    BY <1>1, <1>2, <1>4, <2>2 DEF PageFits, Works, Listed
  <2> QED
    BY <2>1, <2>2
<1>7. \A v \in Accounts : Asks(v)' => v # u /\ Asks(v) /\ Wanted(v)' = Wanted(v) /\ window'[v] = window[v]
  BY <1>4 DEF Asks, Wanted
<1>8. holder'.op = "Enroll" => Asks(u) /\ holder'.cred = Wanted(u) /\ holder'.serial = window[u].request.serial
  BY <1>1 DEF Asks, Wanted
<1>9. NumbersFit'
  <2>1. ASSUME NEW v \in Accounts, Asks(v)'
        PROVE  /\ Unwritten(Wanted(v))' /\ Wanted(v)'.number <= minted'
               /\ holder'.op = "Enroll" => holder'.cred.number # Wanted(v)'.number
    BY <1>1, <1>7, <1>8, <2>1 DEF NumbersFit, Unwritten
  <2>2. \A v, w \in Accounts : Asks(v)' /\ Asks(w)' /\ Wanted(v)'.number = Wanted(w)'.number => v = w
    BY <1>7 DEF NumbersFit
  <2>3. holder'.op = "Enroll" => holder'.cred.number <= minted' /\ Unwritten(holder.cred)'
    BY <1>1, <1>8 DEF NumbersFit, Unwritten
  <2> QED
    BY <1>1, <1>3, <2>1, <2>2, <2>3 DEF NumbersFit
<1>10. NamesFit'
  BY <1>1, <1>7, <1>8 DEF NamesFit
<1>11. KeyRunFits'
  BY <1>1, <1>2, <1>3, PageFits(u) DEF KeyRunFits, PageFits, Listed
<1>12. FilesAgree'
  BY <1>1, <1>2 DEF FilesAgree, Does
<1>13. PolicyRunFits' /\ PolicyFits'
  BY <1>1, <1>2, <1>3 DEF PolicyRunFits, PolicyFits, Pam!SwitchNeverLocksOut, Pam!Passwordless,
     Pam!Authenticates, Decides
<1> QED
  BY <1>5, <1>6, <1>9, <1>10, <1>11, <1>12, <1>13

\* A run that goes on is of the same kind, one step further.
LEMMA EnrolGoes ==
  ASSUME KeysInv, holder.op = "Enroll", holder.step < 3, Pam!NextStep
  PROVE  /\ holder' \in HelperRun /\ holder'.op = "Enroll" /\ holder'.step = holder.step + 1
         /\ holder'.user = holder.user /\ holder'.serial = holder.serial /\ holder'.cred = holder.cred
         /\ holder.user \in Accounts /\ holder.serial \in Keys /\ holder.cred \in Credential
         /\ holder.step \in 1 .. 3
<1>1. holder \in EnrolmentAt(1 .. 3)
  BY HolderKinds DEF KeysInv
<1>2. holder' \in EnrolmentAt(1 .. 3) /\ holder'.step = holder.step + 1
  BY <1>1 DEF Pam!NextStep, EnrolmentAt
<1> QED
  BY <1>1, <1>2 DEF Pam!NextStep, EnrolmentAt, HelperRun

LEMMA RemovalGoes ==
  ASSUME KeysInv, holder.op = "Remove", holder.step < 3, Pam!NextStep
  PROVE  /\ holder' \in HelperRun /\ holder'.op = "Remove" /\ holder'.step = holder.step + 1
         /\ holder'.user = holder.user /\ holder'.serial = holder.serial
         /\ holder.user \in Accounts /\ holder.serial \in Keys /\ holder.step \in 1 .. 3
<1>1. holder \in RemovalAt(1 .. 3)
  BY HolderKinds DEF KeysInv
<1>2. holder' \in RemovalAt(1 .. 3) /\ holder'.step = holder.step + 1
  BY <1>1 DEF Pam!NextStep, RemovalAt
<1> QED
  BY <1>1, <1>2 DEF Pam!NextStep, RemovalAt, HelperRun

LEMMA EnrollMappingPreserves ==
  ASSUME KeysInv, Pam!EnrollWritesMapping
  PROVE  KeysInv'
<1> USE DEF KeysInv
<1>1. /\ holder.op = "Enroll" /\ holder.step = 1 /\ Pam!NextStep
      /\ mapping' = [mapping EXCEPT ![holder.user] = @ \cup {holder.cred}]
      /\ UNCHANGED <<enrolled, pam, managed, installer, nopass, minted, window, wish, cut, orphans, gaveUp>>
  BY DEF Pam!EnrollWritesMapping, Pam!Running, Pam!policyFiles, Pam!histories
<1>2. /\ holder' \in HelperRun /\ holder'.op = "Enroll" /\ holder'.step = 2
      /\ holder'.user = holder.user /\ holder'.serial = holder.serial /\ holder'.cred = holder.cred
      /\ holder.user \in Accounts /\ holder.serial \in Keys /\ holder.cred \in Credential
  <2> HIDE DEF KeysInv
  <2> QED
    BY <1>1, EnrolGoes
<1>3. /\ mapping' \in [Accounts -> SUBSET Credential]
      /\ \A u \in Accounts : mapping[u] \subseteq mapping'[u]
      /\ \A u \in Accounts : \A d \in mapping'[u] : d \in mapping[u] \/ (u = holder.user /\ d = holder.cred)
      /\ holder.cred \in mapping'[holder.user]
  BY <1>1, <1>2 DEF KeysType
<1>4. KeysType'
  BY <1>1, <1>2, <1>3 DEF KeysType
<1>5. \A u \in Accounts : PageFits(u)'
  BY <1>1, <1>2 DEF PageFits, Works, Listed
<1>6. NumbersFit'
  <2>1. \A u \in Accounts : \A d \in mapping'[u] : d.number <= minted'
    BY <1>1, <1>3 DEF NumbersFit
  <2>2. ASSUME NEW u \in Accounts, Asks(u)'
        PROVE  /\ Unwritten(Wanted(u))' /\ Wanted(u)'.number <= minted'
               /\ holder'.cred.number # Wanted(u)'.number
    BY <1>1, <1>2, <1>3, <2>2 DEF NumbersFit, Unwritten, Asks, Wanted
  <2>3. \A u, v \in Accounts : Asks(u)' /\ Asks(v)' /\ Wanted(u)'.number = Wanted(v)'.number => u = v
    BY <1>1 DEF NumbersFit, Asks, Wanted
  <2>4. holder'.cred.number <= minted' /\ \A e \in enrolled' : e.cred.number # holder'.cred.number
    BY <1>1, <1>2 DEF NumbersFit, Unwritten
  <2> QED
    BY <1>1, <1>2, <2>1, <2>2, <2>3, <2>4 DEF NumbersFit
<1>7. NamesFit'
  BY <1>1, <1>2 DEF NamesFit, Asks, Wanted
<1>8. KeyRunFits'
  BY <1>1, <1>2, <1>3 DEF KeyRunFits, Listed
<1>9. FilesAgree'
  BY <1>1, <1>2, <1>3 DEF FilesAgree, Does, KeysType, Enrollment
<1>10. PolicyRunFits'
  BY <1>2 DEF PolicyRunFits
<1>11. PolicyFits'
  BY <1>1, <1>2, <1>3, LockedAreAccounts DEF PolicyFits, Pam!SwitchNeverLocksOut, Pam!Passwordless,
     Pam!Authenticates, Decides
<1> QED
  BY <1>4, <1>5, <1>6, <1>7, <1>8, <1>9, <1>10, <1>11

LEMMA EnrollMetadataPreserves ==
  ASSUME KeysInv, Pam!EnrollWritesMetadata
  PROVE  KeysInv'
<1> USE DEF KeysInv
<1>1. /\ holder.op = "Enroll" /\ holder.step = 2 /\ Pam!NextStep
      /\ UNCHANGED <<mapping, pam, managed, installer, nopass, minted, window, wish, cut, orphans, gaveUp>>
  BY DEF Pam!EnrollWritesMetadata, Pam!Running, Pam!policyFiles, Pam!histories
<1>2. /\ holder' \in HelperRun /\ holder'.op = "Enroll" /\ holder'.step = 3
      /\ holder'.user = holder.user /\ holder'.serial = holder.serial /\ holder'.cred = holder.cred
      /\ holder.user \in Accounts /\ holder.serial \in Keys /\ holder.cred \in Credential
  <2> HIDE DEF KeysInv
  <2> QED
    BY <1>1, EnrolGoes
<1> DEFINE entry == [user |-> holder.user, serial |-> holder.serial, cred |-> holder.cred]
<1>3. PICK e \in Enrollment : e = entry /\ e.user = holder.user /\ e.serial = holder.serial /\ e.cred = holder.cred
  <2>1. entry \in Enrollment /\ entry.user = holder.user /\ entry.serial = holder.serial /\ entry.cred = holder.cred
    BY <1>2 DEF Enrollment
  <2> HIDE DEF entry
  <2> QED
    BY <2>1
<1>4. enrolled' = enrolled \cup {e}
  <2>1. Pam!OfSerial(holder.user, holder.serial) = {}
    BY <1>1 DEF KeyRunFits, Listed, Pam!OfSerial, Pam!EnrolledBy
  <2> QED
    BY <1>3, <2>1 DEF Pam!EnrollWritesMetadata
<1> HIDE DEF entry
<1>5. KeysType'
  BY <1>1, <1>2, <1>3, <1>4 DEF KeysType
<1>6. \A u \in Accounts : PageFits(u)'
  <2>1. \A u \in Accounts \ {holder.user} : \A s : Listed(u, s)' <=> Listed(u, s)
    BY <1>3, <1>4 DEF Listed
  <2>2. \A u \in Accounts : Works(u)' <=> u = holder.user
    BY <1>2 DEF Works
  <2>3. \A u \in Accounts : Works(u) <=> u = holder.user
    BY <1>1 DEF Works
  <2> HIDE DEF KeysInv
  <2> QED
    BY <1>1, <2>1, <2>2, <2>3, PagesKept
<1>7. NumbersFit'
  <2>1. \A d \in enrolled' : d.cred.number <= minted'
    BY <1>1, <1>3, <1>4 DEF NumbersFit
  <2>2. \A d, f \in enrolled' : d.cred.number = f.cred.number => d = f
    BY <1>1, <1>3, <1>4 DEF NumbersFit
  <2>3. ASSUME NEW u \in Accounts, Asks(u)'
        PROVE  /\ Unwritten(Wanted(u))' /\ Wanted(u)'.number <= minted'
               /\ holder'.cred.number # Wanted(u)'.number
    BY <1>1, <1>2, <1>3, <1>4, <2>3 DEF NumbersFit, Unwritten, Asks, Wanted
  <2>4. \A u, v \in Accounts : Asks(u)' /\ Asks(v)' /\ Wanted(u)'.number = Wanted(v)'.number => u = v
    BY <1>1 DEF NumbersFit, Asks, Wanted
  <2>5. holder'.cred.number <= minted' /\ \A u \in Accounts : \A d \in mapping'[u] : d.number <= minted'
    BY <1>1, <1>2 DEF NumbersFit
  <2> QED
    BY <1>1, <1>2, <2>1, <2>2, <2>3, <2>4, <2>5 DEF NumbersFit
<1>8. NamesFit'
  BY <1>1, <1>2, <1>3, <1>4 DEF NamesFit, Asks, Wanted
<1>9. KeyRunFits'
  BY <1>1, <1>2, <1>3, <1>4 DEF KeyRunFits
<1>10. FilesAgree'
  <2>1. ASSUME NEW u \in Accounts, NEW c \in mapping'[u]
        PROVE  \/ \E d \in enrolled' : d.user = u /\ d.cred = c
               \/ c \in orphans' /\ u \in cut'
               \/ Does(u, "Enroll")' /\ holder'.cred = c
    BY <1>1, <1>2, <1>4 DEF FilesAgree, Does
  <2>2. ASSUME NEW d \in enrolled' PROVE d.user \in cut' \/ d.cred \in mapping'[d.user]
    BY <1>1, <1>3, <1>4 DEF FilesAgree, Does, KeyRunFits
  <2>3. ASSUME ~pam', NEW d \in enrolled'
        PROVE  d.user \in cut' \/ (Does(d.user, "Enroll")' /\ holder'.step = 3)
    BY <1>1, <1>2, <1>3, <1>4, <2>3 DEF FilesAgree, Does
  <2> QED
    BY <2>1, <2>2, <2>3 DEF FilesAgree
<1>11. PolicyRunFits'
  BY <1>2 DEF PolicyRunFits
<1>12. PolicyFits'
  BY <1>1, <1>2 DEF PolicyFits, Pam!SwitchNeverLocksOut, Pam!Passwordless, Pam!Authenticates, Decides
<1> QED
  BY <1>5, <1>6, <1>7, <1>8, <1>9, <1>10, <1>11, <1>12

LEMMA RemovePreserves ==
  ASSUME KeysInv, Pam!RemoveWrites
  PROVE  KeysInv'
<1> USE DEF KeysInv
<1>1. /\ holder.op = "Remove" /\ holder.step \in {1, 2} /\ Pam!NextStep
      /\ UNCHANGED <<pam, managed, installer, nopass, minted, window, wish, cut, orphans>>
  BY DEF Pam!RemoveWrites, Pam!RemoveFromMapping, Pam!RemoveFromMetadata, Pam!Running, Pam!policyFiles, Pam!histories
<1>2. /\ holder' \in HelperRun /\ holder'.op = "Remove" /\ holder'.step = holder.step + 1
      /\ holder'.user = holder.user /\ holder'.serial = holder.serial
      /\ holder.user \in Accounts /\ holder.serial \in Keys
  <2> HIDE DEF KeysInv
  <2> QED
    BY <1>1, RemovalGoes
<1> DEFINE mine(e) == e.user = holder.user /\ e.serial = holder.serial
<1>3. CASE holder.step = 1
  <2>1. /\ mapping' = [mapping EXCEPT ![holder.user] = @ \ {e.cred : e \in Pam!OfSerial(holder.user, holder.serial)}]
        /\ gaveUp' = IF mapping'[holder.user] = {} THEN gaveUp \cup {holder.user} ELSE gaveUp
        /\ UNCHANGED enrolled
    BY <1>3 DEF Pam!RemoveWrites, Pam!RemoveFromMapping, Pam!RemoveFromMetadata, Pam!Running
  <2>2. /\ mapping' \in [Accounts -> SUBSET Credential]
        /\ \A u \in Accounts : mapping'[u] \subseteq mapping[u]
        /\ \A u \in Accounts \ {holder.user} : mapping'[u] = mapping[u]
    BY <1>2, <2>1 DEF KeysType
  <2>3. /\ \A e \in enrolled : mine(e) => e.cred \notin mapping'[holder.user]
        /\ \A c \in mapping[holder.user] : c \in mapping'[holder.user] \/ \E e \in enrolled : mine(e) /\ e.cred = c
    BY <1>2, <2>1 DEF KeysType, Pam!OfSerial, Pam!EnrolledBy
  <2>4. KeysType'
    BY <1>1, <1>2, <2>1, <2>2 DEF KeysType
  <2>5. \A u \in Accounts : PageFits(u)'
    BY <1>1, <1>2, <2>1 DEF PageFits, Works, Listed
  <2>6. NumbersFit' /\ NamesFit'
    <3> HIDE DEF KeysInv
    <3> QED
      BY <1>1, <1>2, <2>1, <2>2, NumbersKept
  <2>7. KeyRunFits'
    BY <1>2, <2>1, <2>3 DEF KeyRunFits
  <2>8. FilesAgree'
    <3>1. ASSUME NEW e \in enrolled'
          PROVE  \/ e.user \in cut' \/ e.cred \in mapping'[e.user]
                 \/ Does(e.user, "Remove")' /\ holder'.step = 2 /\ holder'.serial = e.serial
      <4>1. CASE mine(e)
        BY <1>2, <1>3, <4>1 DEF Does
      <4>2. CASE e.user = holder.user /\ ~mine(e)
        <5>1. e.user \in cut \/ e.cred \in mapping[e.user]
          BY <1>3, <2>1, <3>1 DEF FilesAgree
        <5>2. \A f \in enrolled : f.cred = e.cred => f = e
          BY <2>1, <3>1 DEF NumbersFit
        <5> QED
          BY <1>1, <2>1, <2>3, <4>2, <5>1, <5>2
      <4>3. CASE e.user # holder.user
        BY <1>1, <1>3, <2>1, <2>2, <4>3 DEF FilesAgree, KeysType, Enrollment
      <4> QED
        BY <4>1, <4>2, <4>3
    <3>2. ASSUME NEW u \in Accounts, NEW c \in mapping'[u]
          PROVE  \/ \E e \in enrolled' : e.user = u /\ e.cred = c
                 \/ c \in orphans' /\ u \in cut'
      BY <1>1, <2>1, <2>2 DEF FilesAgree, Does
    <3>3. ~pam' => \A e \in enrolled' : e.user \in cut'
      BY <1>1, <2>1 DEF FilesAgree, Does
    <3> QED
      BY <3>1, <3>2, <3>3 DEF FilesAgree
  <2>9. PolicyRunFits'
    BY <1>2 DEF PolicyRunFits
  <2>10. PolicyFits'
    <3>1. ASSUME NEW u \in Locked PROVE Pam!Passwordless(u)' \/ Pam!Authenticates(u)' \/ u \in gaveUp' \cup cut'
      BY <1>1, <2>1, <2>2, LockedAreAccounts
         DEF PolicyFits, Pam!SwitchNeverLocksOut, Pam!Passwordless, Pam!Authenticates
    <3>2. \A u \in Accounts \ cut' : (Pam!Passwordless(u)' <=> wish'[u]) /\ (u \in nopass' <=> u \in managed')
      BY <1>1 DEF PolicyFits, Pam!Passwordless, Decides
    <3> QED
      BY <3>1, <3>2 DEF PolicyFits, Pam!SwitchNeverLocksOut
  <2> QED
    BY <2>4, <2>5, <2>6, <2>7, <2>8, <2>9, <2>10
<1>4. CASE holder.step = 2
  <2>1. /\ enrolled' = enrolled \ Pam!OfSerial(holder.user, holder.serial)
        /\ UNCHANGED <<mapping, gaveUp>>
    BY <1>4 DEF Pam!RemoveWrites, Pam!RemoveFromMapping, Pam!RemoveFromMetadata, Pam!Running, Pam!histories
  <2>2. enrolled' \subseteq enrolled /\ \A e \in enrolled : e \in enrolled' <=> ~mine(e)
    BY <2>1 DEF Pam!OfSerial, Pam!EnrolledBy
  <2>3. KeysType'
    BY <1>1, <1>2, <2>1, <2>2 DEF KeysType
  <2>4. \A u \in Accounts : PageFits(u)'
    <3>1. \A u \in Accounts \ {holder.user} : \A s : Listed(u, s)' <=> Listed(u, s)
      BY <2>2 DEF Listed
    <3>2. \A u \in Accounts : (Works(u)' <=> u = holder.user) /\ (Works(u) <=> u = holder.user)
      BY <1>1, <1>2 DEF Works
    <3> HIDE DEF KeysInv
    <3> QED
      BY <1>1, <3>1, <3>2, PagesKept
  <2>5. NumbersFit' /\ NamesFit'
    <3> HIDE DEF KeysInv
    <3> QED
      BY <1>1, <1>2, <2>1, <2>2, NumbersKept
  <2>6. KeyRunFits'
    BY <1>2, <2>2 DEF KeyRunFits
  <2>7. FilesAgree'
    <3>1. ASSUME NEW u \in Accounts, NEW c \in mapping'[u]
          PROVE  \/ \E e \in enrolled' : e.user = u /\ e.cred = c
                 \/ c \in orphans' /\ u \in cut'
      BY <1>1, <1>4, <2>1, <2>2 DEF FilesAgree, Does, KeyRunFits
    <3>2. ASSUME NEW e \in enrolled' PROVE e.user \in cut' \/ e.cred \in mapping'[e.user]
      BY <1>1, <2>1, <2>2 DEF FilesAgree, Does
    <3>3. ~pam' => \A e \in enrolled' : e.user \in cut'
      BY <1>1, <2>2 DEF FilesAgree, Does
    <3> QED
      BY <3>1, <3>2, <3>3 DEF FilesAgree
  <2>8. PolicyRunFits'
    BY <1>2 DEF PolicyRunFits
  <2>9. PolicyFits'
    BY <1>1, <1>2, <2>1 DEF PolicyFits, Pam!SwitchNeverLocksOut, Pam!Passwordless, Pam!Authenticates, Decides
  <2> QED
    BY <2>3, <2>4, <2>5, <2>6, <2>7, <2>8, <2>9
<1> QED
  BY <1>1, <1>3, <1>4

\* The page of a run that works waits.
LEMMA WorkingWaits ==
  ASSUME KeysInv, holder.op \notin {"None", "Repair"}
  PROVE  holder.user \in Accounts /\ \A u \in Accounts : Works(u) <=> u = holder.user
BY HolderKinds DEF KeysInv, Works, EnrolmentAt, RemovalAt, PolicyRequest, PolicyWrite

\* If no key is enrolled, only accounts whose run was cut off have accepted credentials.
LEMMA NoneEnrolled ==
  ASSUME KeysInv, enrolled = {}, ~(holder.op = "Enroll" /\ holder.step < 3),
         NEW u \in Accounts, mapping[u] # {}
  PROVE  u \in cut
<1>1. PICK c : c \in mapping[u]
  OBVIOUS
<1>2. FilesAgree /\ KeyRunFits
  BY DEF KeysInv
<1>3. (c \in orphans /\ u \in cut) \/ Does(u, "Enroll")
  BY <1>1, <1>2 DEF FilesAgree
<1>4. ~Does(u, "Enroll")
  <2>1. holder.op = "Enroll" => holder.step \in 1 .. 3
    BY HolderKinds DEF KeysInv, EnrolmentAt
  <2> QED
    BY <1>2, <2>1 DEF KeyRunFits, Does
<1> QED
  BY <1>3, <1>4

LEMMA EnsurePreserves ==
  ASSUME KeysInv, Pam!EnsurePam
  PROVE  KeysInv'
<1> USE DEF KeysInv
<1>1. /\ holder.op \in {"Enroll", "Remove"} /\ holder.step = 3 /\ pam' = (enrolled # {}) /\ Pam!EndRun
      /\ gaveUp' = IF holder.op = "Enroll" THEN gaveUp \ {holder.user} ELSE gaveUp
      /\ UNCHANGED <<enrolled, mapping, managed, installer, nopass, minted, wish, cut, orphans>>
  BY DEF Pam!EnsurePam, Pam!Running, Pam!policyFiles
<1>2. /\ holder' = Pam!NoRun /\ holder' \in HelperRun
      /\ window' \in [Accounts -> SudoPage]
      /\ \A u \in Accounts : window'[u] = window[u] \/ window'[u].stage = "closed"
  <2> HIDE DEF KeysInv
  <2> QED
    BY <1>1, RunEnds
<1>3. holder'.op = "None" /\ holder.user \in Accounts
  <2> HIDE DEF KeysInv
  <2> QED
    BY <1>1, <1>2, NoRunIs, WorkingWaits
<1>4. KeysType'
  BY <1>1, <1>2 DEF KeysType
<1>5. \A u \in Accounts : PageFits(u)'
  <2>1. \A u \in Accounts : ~Works(u)' /\ \A s : Listed(u, s)' <=> Listed(u, s)
    BY <1>1, <1>3 DEF Works, Listed
  <2> HIDE DEF KeysInv
  <2> QED
    BY <1>1, <1>2, <2>1, PagesKept
<1>6. NumbersFit' /\ NamesFit'
  <2> HIDE DEF KeysInv
  <2> QED
    BY <1>1, <1>2, <1>3, NumbersKept
<1>7. KeyRunFits' /\ PolicyRunFits'
  BY <1>3 DEF KeyRunFits, PolicyRunFits
<1>8. FilesAgree'
  <2>1. ASSUME NEW u \in Accounts, NEW c \in mapping'[u]
        PROVE  \/ \E e \in enrolled' : e.user = u /\ e.cred = c
               \/ c \in orphans' /\ u \in cut'
    BY <1>1 DEF FilesAgree, Does, KeyRunFits
  <2>2. \A e \in enrolled' : e.user \in cut' \/ e.cred \in mapping'[e.user]
    BY <1>1 DEF FilesAgree
  <2>3. ~pam' => enrolled' = {}
    BY <1>1
  <2> QED
    BY <2>1, <2>2, <2>3 DEF FilesAgree
<1>9. PolicyFits'
  <2>1. ASSUME NEW u \in Locked PROVE Pam!Passwordless(u)' \/ Pam!Authenticates(u)' \/ u \in gaveUp' \cup cut'
    <3>1. u \in Accounts
      BY LockedAreAccounts
    <3>2. CASE holder.op = "Enroll" /\ u = holder.user
      <4>1. enrolled # {} /\ mapping[u] # {}
        BY <1>1, <3>2 DEF KeyRunFits
      <4> QED
        BY <1>1, <4>1 DEF Pam!Authenticates
    <3>3. CASE ~(holder.op = "Enroll" /\ u = holder.user) /\ ~Pam!Authenticates(u)
      BY <1>1, <3>3 DEF PolicyFits, Pam!SwitchNeverLocksOut, Pam!Passwordless
    <3>4. CASE Pam!Authenticates(u) /\ enrolled # {}
      BY <1>1, <3>4 DEF Pam!Authenticates
    <3>5. CASE Pam!Authenticates(u) /\ enrolled = {}
      <4>1. mapping[u] # {}
        BY <3>5 DEF Pam!Authenticates
      <4> HIDE DEF KeysInv
      <4>2. u \in cut
        BY <1>1, <3>1, <3>5, <4>1, NoneEnrolled
      <4> QED
        BY <1>1, <4>2
    <3> QED
      BY <3>2, <3>3, <3>4, <3>5
  <2>2. \A u \in Accounts \ cut' : (Pam!Passwordless(u)' <=> wish'[u]) /\ (u \in nopass' <=> u \in managed')
    BY <1>1 DEF PolicyFits, Pam!Passwordless, Decides
  <2> QED
    BY <2>1, <2>2 DEF PolicyFits, Pam!SwitchNeverLocksOut
<1> QED
  BY <1>4, <1>5, <1>6, <1>7, <1>8, <1>9

LEMMA DiesPreserves ==
  ASSUME KeysInv, Pam!HelperDies
  PROVE  KeysInv'
<1> USE DEF KeysInv
<1>1. /\ Pam!EndRun
      /\ cut' = IF holder.op # "Repair" /\ holder.step > 1 THEN cut \cup {holder.user} ELSE cut
      /\ orphans' = IF holder.op = "Enroll" /\ holder.step = 2 THEN orphans \cup {holder.cred} ELSE orphans
      /\ UNCHANGED <<enrolled, mapping, pam, managed, installer, nopass, minted, wish, gaveUp>>
      /\ holder.op # "None"
  BY HolderKinds DEF Pam!HelperDies, Pam!Running, Pam!keyFiles, Pam!policyFiles
<1>2. /\ holder' = Pam!NoRun /\ holder' \in HelperRun
      /\ window' \in [Accounts -> SudoPage]
      /\ \A u \in Accounts : window'[u] = window[u] \/ window'[u].stage = "closed"
  <2> HIDE DEF KeysInv
  <2> QED
    BY <1>1, RunEnds
<1>3. holder'.op = "None" /\ (holder.op # "Repair" => holder.user \in Accounts)
  <2> HIDE DEF KeysInv
  <2> QED
    BY <1>1, <1>2, NoRunIs, WorkingWaits
<1>4. KeysType' /\ cut \subseteq cut'
  BY <1>1, <1>2, <1>3 DEF KeysType
<1>5. \A u \in Accounts : PageFits(u)'
  <2>1. \A u \in Accounts : ~Works(u)' /\ \A s : Listed(u, s)' <=> Listed(u, s)
    BY <1>1, <1>3 DEF Works, Listed
  <2> HIDE DEF KeysInv
  <2> QED
    BY <1>1, <1>2, <1>4, <2>1, PagesKept
<1>6. NumbersFit' /\ NamesFit'
  <2> HIDE DEF KeysInv
  <2> QED
    BY <1>1, <1>2, <1>3, NumbersKept
<1>7. KeyRunFits' /\ PolicyRunFits'
  BY <1>3 DEF KeyRunFits, PolicyRunFits
<1>8. FilesAgree'
  <2>1. ASSUME NEW u \in Accounts, NEW c \in mapping'[u]
        PROVE  \/ \E e \in enrolled' : e.user = u /\ e.cred = c
               \/ c \in orphans' /\ u \in cut'
    <3>1. CASE Does(u, "Enroll") /\ holder.cred = c
      <4>1. holder.step \in {1, 2, 3}
        BY <3>1, HolderKinds DEF Does, EnrolmentAt
      <4>2. holder.step # 1
        BY <1>1, <2>1, <3>1 DEF NumbersFit, Unwritten, Does
      <4> QED
        BY <1>1, <3>1, <4>1, <4>2 DEF Does, KeyRunFits
    <3>2. CASE ~(Does(u, "Enroll") /\ holder.cred = c)
      BY <1>1, <1>4, <3>2 DEF FilesAgree
    <3> QED
      BY <3>1, <3>2
  <2>2. \A e \in enrolled' : e.user \in cut' \/ e.cred \in mapping'[e.user]
    BY <1>1, <1>4 DEF FilesAgree, Does
  <2>3. ~pam' => \A e \in enrolled' : e.user \in cut'
    BY <1>1, <1>4 DEF FilesAgree, Does
  <2> QED
    BY <2>1, <2>2, <2>3 DEF FilesAgree
<1>9. PolicyFits'
  <2>1. ASSUME NEW u \in Locked PROVE Pam!Passwordless(u)' \/ Pam!Authenticates(u)' \/ u \in gaveUp' \cup cut'
    BY <1>1, <1>4, LockedAreAccounts DEF PolicyFits, Pam!SwitchNeverLocksOut, Pam!Passwordless, Pam!Authenticates
  <2>2. \A u \in Accounts \ cut' : (Pam!Passwordless(u)' <=> wish'[u]) /\ (u \in nopass' <=> u \in managed')
    BY <1>1, <1>4 DEF PolicyFits, Pam!Passwordless, Decides
  <2> QED
    BY <2>1, <2>2 DEF PolicyFits, Pam!SwitchNeverLocksOut
<1> QED
  BY <1>4, <1>5, <1>6, <1>7, <1>8, <1>9

\* The package's rebuild: no page waits for it.
LEMMA RepairGoes ==
  ASSUME KeysInv, holder.op = "Repair", holder.step < 3, Pam!NextStep
  PROVE  holder' \in HelperRun /\ holder'.op = "Repair"
<1>1. holder \in RepairRun
  BY HolderKinds DEF KeysInv
<1>2. holder' \in RepairRun
  BY <1>1 DEF Pam!NextStep, RepairRun
<1> QED
  BY <1>2 DEF RepairRun, HelperRun

LEMMA RepairPreserves ==
  ASSUME KeysInv, Pam!StartRepair \/ Pam!RepairKeys \/ Pam!RepairPam \/ Pam!RepairPolicy
  PROVE  KeysInv'
<1> USE DEF KeysInv
<1>1. /\ holder.op \in {"None", "Repair"}
      /\ UNCHANGED <<enrolled, managed, installer, minted, wish, cut, gaveUp>>
  BY NoRunIs DEF Pam!StartRepair, Pam!RepairKeys, Pam!RepairPam, Pam!RepairPolicy, Pam!Running,
     Pam!keyFiles, Pam!policyFiles, Pam!histories
<1>2. /\ holder' \in HelperRun /\ holder'.op \in {"None", "Repair"}
      /\ UNCHANGED window
  <2>1. CASE Pam!StartRepair
    <3>1. [op |-> "Repair", step |-> 1] \in RepairRun
      BY DEF RepairRun
    <3> QED
      BY <2>1, <3>1 DEF Pam!StartRepair, HelperRun, RepairRun
  <2>2. CASE Pam!RepairKeys \/ Pam!RepairPam
    <3>1. Pam!NextStep /\ UNCHANGED window /\ holder.op = "Repair" /\ holder.step < 3
      BY <2>2 DEF Pam!RepairKeys, Pam!RepairPam, Pam!Running
    <3> HIDE DEF KeysInv
    <3> QED
      BY <3>1, RepairGoes
  <2>3. CASE Pam!RepairPolicy
    BY <2>3, NoRunIs DEF Pam!RepairPolicy, Pam!EndRun, Pam!Running
  <2> QED
    BY <2>1, <2>2, <2>3
<1>3. /\ mapping' \in [Accounts -> SUBSET Credential]
      /\ UNCHANGED <<mapping, orphans>>
           \/ (/\ orphans' = {}
               /\ \A u \in Accounts : \A c : c \in mapping'[u] <=> \E e \in enrolled : e.user = u /\ e.cred = c)
  <2>1. CASE Pam!RepairKeys
    <3>1. mapping' = [u \in Accounts |-> {e.cred : e \in Pam!EnrolledBy(u)}] /\ orphans' = {}
      BY <2>1 DEF Pam!RepairKeys
    <3>2. \A u \in Accounts : {e.cred : e \in Pam!EnrolledBy(u)} \subseteq Credential
      BY DEF KeysType, Enrollment, Pam!EnrolledBy
    <3> QED
      BY <3>1, <3>2 DEF Pam!EnrolledBy
  <2>2. CASE ~Pam!RepairKeys
    BY <2>2 DEF Pam!StartRepair, Pam!RepairPam, Pam!RepairPolicy, Pam!keyFiles, Pam!histories, KeysType
  <2> QED
    BY <2>1, <2>2
<1>4. UNCHANGED pam \/ (pam' = (enrolled # {}) /\ UNCHANGED mapping)
  BY DEF Pam!StartRepair, Pam!RepairKeys, Pam!RepairPam, Pam!RepairPolicy, Pam!keyFiles
<1>5. UNCHANGED nopass \/ nopass' = managed
  BY DEF Pam!StartRepair, Pam!RepairKeys, Pam!RepairPam, Pam!RepairPolicy, Pam!policyFiles
<1>6. KeysType'
  BY <1>1, <1>2, <1>3, <1>4, <1>5 DEF KeysType
<1>7. \A u \in Accounts : PageFits(u)'
  BY <1>1, <1>2 DEF PageFits, Works, Listed
<1>8. NumbersFit' /\ NamesFit'
  <2>1. \A u \in Accounts : \A d \in mapping'[u] :
          (\E v \in Accounts : d \in mapping[v]) \/ (\E e \in enrolled : e.cred = d)
    BY <1>3
  <2> HIDE DEF KeysInv
  <2> QED
    BY <1>1, <1>2, <2>1, NumbersKept
<1>9. KeyRunFits' /\ PolicyRunFits'
  BY <1>2 DEF KeyRunFits, PolicyRunFits
<1>10. FilesAgree'
  <2>1. ASSUME NEW u \in Accounts, NEW c \in mapping'[u]
        PROVE  \/ \E e \in enrolled' : e.user = u /\ e.cred = c
               \/ c \in orphans' /\ u \in cut'
    BY <1>1, <1>3 DEF FilesAgree, Does
  <2>2. \A e \in enrolled' : e.user \in cut' \/ e.cred \in mapping'[e.user]
    BY <1>1, <1>3 DEF FilesAgree, Does, KeysType, Enrollment
  <2>3. ~pam' => \A e \in enrolled' : e.user \in cut'
    BY <1>1, <1>4 DEF FilesAgree, Does
  <2> QED
    BY <2>1, <2>2, <2>3 DEF FilesAgree
<1>11. PolicyFits'
  <2>1. ASSUME NEW u \in Locked PROVE Pam!Passwordless(u)' \/ Pam!Authenticates(u)' \/ u \in gaveUp' \cup cut'
    <3>1. u \in Accounts
      BY LockedAreAccounts
    <3>2. CASE ~Pam!Authenticates(u)
      BY <1>1, <3>2 DEF PolicyFits, Pam!SwitchNeverLocksOut, Pam!Passwordless
    <3>3. CASE Pam!Authenticates(u) /\ UNCHANGED pam
      BY <1>1, <1>3, <3>1, <3>3 DEF Pam!Authenticates, FilesAgree, Does
    <3>4. CASE Pam!Authenticates(u) /\ pam' = (enrolled # {}) /\ UNCHANGED mapping
      <4>1. mapping[u] # {}
        BY <3>4 DEF Pam!Authenticates
      <4> HIDE DEF KeysInv
      <4>2. enrolled = {} => u \in cut
        BY <1>1, <3>1, <4>1, NoneEnrolled
      <4> QED
        BY <1>1, <3>4, <4>1, <4>2 DEF Pam!Authenticates
    <3> QED
      BY <1>4, <3>2, <3>3, <3>4
  <2>2. \A u \in Accounts \ cut' : (Pam!Passwordless(u)' <=> wish'[u]) /\ (u \in nopass' <=> u \in managed')
    BY <1>1, <1>5 DEF PolicyFits, Pam!Passwordless, Decides
  <2> QED
    BY <2>1, <2>2 DEF PolicyFits, Pam!SwitchNeverLocksOut
<1> QED
  BY <1>6, <1>7, <1>8, <1>9, <1>10, <1>11

(*****************************************************************************)
(* The policy.                                                               *)
(*****************************************************************************)
\* The steps of a policy run touch no key, and of the other accounts only what was cut off.
LEMMA PolicyStep ==
  ASSUME KeysInv, KeysType', holder.op \in {"Enable", "Disable"},
         holder'.op \in {"None", "Enable", "Disable"},
         holder'.op # "None" => holder'.user = holder.user /\ UNCHANGED window,
         UNCHANGED <<enrolled, mapping, pam, minted, cut, orphans, gaveUp>>,
         \A u \in Accounts : window'[u] = window[u] \/ window'[u].stage = "closed",
         \A u \in Accounts \ (cut \cup {holder.user}) : u \in managed' <=> u \in managed,
         PolicyRunFits', PolicyFits'
  PROVE  KeysInv'
<1>1. \A u \in Accounts : PageFits(u)'
  <2>1. \A u \in Accounts : Works(u) <=> u = holder.user
    BY WorkingWaits
  <2>2. \A u \in Accounts : Works(u)' => u = holder.user /\ window'[u] = window[u]
    BY DEF Works
  <2>3. \A u \in Accounts : \A s : Listed(u, s)' <=> Listed(u, s)
    BY DEF Listed
  <2> QED
    BY <2>1, <2>2, <2>3, PagesKept
<1>2. NumbersFit' /\ NamesFit'
  BY NumbersKept
<1>3. KeyRunFits'
  BY DEF KeyRunFits
<1>4. FilesAgree'
  BY DEF KeysInv, FilesAgree, Does
<1> QED
  BY <1>1, <1>2, <1>3, <1>4 DEF KeysInv

LEMMA ReadPreserves ==
  ASSUME KeysInv, Pam!ReadPolicy
  PROVE  KeysInv'
<1>1. /\ holder.op \in {"Enable", "Disable"} /\ holder.step = 1
      /\ UNCHANGED <<enrolled, mapping, pam, managed, installer, nopass, minted, wish, cut, orphans, gaveUp>>
  BY DEF Pam!ReadPolicy, Pam!Running, Pam!keyFiles, Pam!policyFiles, Pam!histories
<1>2. holder.user \in Accounts
  BY <1>1, WorkingWaits
<1>3. \A u \in Accounts : ~Decides(u)
  BY <1>1 DEF Decides
<1>4. CASE Pam!EndRun
  <2>1. /\ holder' = Pam!NoRun /\ holder' \in HelperRun
        /\ window' \in [Accounts -> SudoPage]
        /\ \A u \in Accounts : window'[u] = window[u] \/ window'[u].stage = "closed"
    BY <1>4, RunEnds
  <2>2. holder'.op = "None"
    BY <2>1, NoRunIs
  <2>3. KeysType' /\ PolicyRunFits'
    BY <1>1, <2>1, <2>2 DEF KeysInv, KeysType, PolicyRunFits
  <2>4. PolicyFits'
    BY <1>1, <1>3 DEF KeysInv, PolicyFits, Pam!SwitchNeverLocksOut, Pam!Passwordless, Pam!Authenticates
  <2> QED
    BY <1>1, <2>1, <2>2, <2>3, <2>4, PolicyStep
<1>5. CASE ~Pam!EndRun
  <2> DEFINE L == nopass \cup managed
             r == [op |-> holder.op, user |-> holder.user, step |-> 2, managed |-> managed,
                   installer |-> installer, listed |-> L]
  <2>1. /\ holder' = r /\ UNCHANGED window
        /\ holder.op = "Enable" \/ Pam!MayDisable(holder.user)
    BY <1>5 DEF Pam!ReadPolicy
  <2>2. managed \subseteq Accounts /\ installer \subseteq Accounts /\ L \subseteq Accounts
    BY DEF KeysInv, KeysType
  <2>3. r \in PolicyWrite
    <3> HIDE DEF L
    <3> QED
      BY <1>1, <1>2, <2>2 DEF PolicyWrite
  <2>4. /\ r.op = holder.op /\ r.user = holder.user /\ r.step = 2 /\ r.managed = managed
        /\ r.installer = installer /\ r.listed = L
    OBVIOUS
  <2> HIDE DEF r
  <2>5. KeysType'
    BY <1>1, <2>1, <2>3 DEF KeysInv, KeysType, HelperRun
  <2>6. \A u \in Accounts \ cut : (Pam!Passwordless(u) <=> wish[u]) /\ (u \in nopass <=> u \in managed)
    BY <1>3 DEF KeysInv, PolicyFits
  <2>7. OthersAsRead'
    BY <1>1, <2>1, <2>4, <2>6 DEF OthersAsRead
  <2>8. OwnAsRead'
    BY <1>1, <1>2, <2>1, <2>4, <2>6 DEF OwnAsRead, KeysInv, PolicyFits, Pam!SwitchNeverLocksOut,
       Pam!Passwordless, Pam!Authenticates
  <2>9. OwnSoFar'
    <3>1. holder.op = "Disable" => holder.user \notin Locked \/ \E e \in enrolled : e.user = holder.user
      BY <2>1 DEF Pam!MayDisable, Pam!EnrolledBy
    <3> QED
      BY <1>1, <2>1, <2>4, <3>1 DEF OwnSoFar
  <2>10. PolicyRunFits'
    BY <2>7, <2>8, <2>9 DEF PolicyRunFits
  <2>11. PolicyFits'
    BY <1>1, <2>6 DEF KeysInv, PolicyFits, Pam!SwitchNeverLocksOut, Pam!Passwordless, Pam!Authenticates
  <2> QED
    BY <1>1, <2>1, <2>4, <2>5, <2>10, <2>11, PolicyStep
<1> QED
  BY <1>4, <1>5

\* A policy run that goes on writing.
LEMMA WriterIs ==
  ASSUME KeysInv, holder.op \in {"Enable", "Disable"}, holder.step \in {2, 3, 4}
  PROVE  /\ holder \in PolicyWrite /\ holder.user \in Accounts
         /\ OthersAsRead /\ OwnAsRead /\ OwnSoFar
<1>1. holder \in PolicyWrite
  BY HolderKinds DEF KeysInv
<1> QED
  BY <1>1 DEF PolicyWrite, KeysInv, PolicyRunFits

LEMMA WriterGoes ==
  ASSUME KeysInv, holder.op \in {"Enable", "Disable"}, holder.step \in {2, 3, 4},
         NEW n \in 2 .. 4, holder' = [holder EXCEPT !.step = n]
  PROVE  /\ holder' \in HelperRun /\ holder'.op = holder.op /\ holder'.user = holder.user
         /\ holder'.step = n /\ holder'.managed = holder.managed
         /\ holder'.installer = holder.installer /\ holder'.listed = holder.listed
<1>1. holder \in PolicyWrite
  BY WriterIs
<1>2. holder' \in PolicyWrite /\ holder'.step = n
  BY <1>1 DEF PolicyWrite
<1> QED
  BY <1>1, <1>2 DEF PolicyWrite, HelperRun

LEMMA EnablePreserves ==
  ASSUME KeysInv, Pam!EnableWritesRule
  PROVE  KeysInv'
<1>1. /\ holder.op = "Enable" /\ holder.step = 2 /\ holder' = [holder EXCEPT !.step = 4]
      /\ managed' = holder.listed \cup {holder.user}
      /\ UNCHANGED <<enrolled, mapping, pam, installer, nopass, minted, window, wish, cut, orphans, gaveUp>>
  BY DEF Pam!EnableWritesRule, Pam!Running, Pam!keyFiles, Pam!histories
<1>2. /\ holder \in PolicyWrite /\ holder.user \in Accounts
      /\ OthersAsRead /\ OwnAsRead
  BY <1>1, WriterIs
<1>3. /\ holder' \in HelperRun /\ holder'.op = "Enable" /\ holder'.user = holder.user
      /\ holder'.step = 4 /\ holder'.managed = holder.managed
      /\ holder'.installer = holder.installer /\ holder'.listed = holder.listed
  BY <1>1, WriterGoes
<1>4. managed' \subseteq Accounts /\ holder.user \in managed'
  BY <1>1, <1>2 DEF PolicyWrite
<1>5. KeysType'
  BY <1>1, <1>3, <1>4 DEF KeysInv, KeysType
<1>6. \A u \in Accounts \ (cut \cup {holder.user}) : u \in managed' <=> u \in managed
  BY <1>1, <1>2 DEF OthersAsRead
<1>7. PolicyRunFits'
  <2>1. OthersAsRead'
    BY <1>1, <1>2, <1>3, <1>6 DEF OthersAsRead
  <2>2. OwnAsRead'
    BY <1>1, <1>2, <1>3 DEF OwnAsRead, Pam!Authenticates
  <2>3. OwnSoFar'
    BY <1>3, <1>4 DEF OwnSoFar
  <2> QED
    BY <2>1, <2>2, <2>3 DEF PolicyRunFits
<1>8. PolicyFits'
  <2>1. ASSUME NEW u \in Locked PROVE Pam!Passwordless(u)' \/ Pam!Authenticates(u)' \/ u \in gaveUp' \cup cut'
    <3>1. u \in Accounts
      BY LockedAreAccounts
    <3>2. Pam!Passwordless(u) \/ Pam!Authenticates(u) \/ u \in gaveUp \cup cut
      BY DEF KeysInv, PolicyFits, Pam!SwitchNeverLocksOut
    <3> QED
      BY <1>1, <1>4, <1>6, <3>1, <3>2 DEF Pam!Passwordless, Pam!Authenticates
  <2>2. ASSUME NEW u \in Accounts \ cut', u # holder.user
        PROVE (Pam!Passwordless(u)' <=> wish'[u]) /\ (u \in nopass' <=> u \in managed')
    <3>1. (Pam!Passwordless(u) <=> wish[u]) /\ (u \in nopass <=> u \in managed)
      BY <1>1, <2>2 DEF KeysInv, PolicyFits, Decides
    <3> QED
      BY <1>1, <1>6, <2>2, <3>1 DEF Pam!Passwordless
  <2>3. ASSUME NEW u \in Accounts, u = holder.user PROVE Decides(u)'
    BY <1>3, <2>3 DEF Decides
  <2>4. ASSUME NEW u \in Accounts \ cut'
        PROVE  Decides(u)' \/ ((Pam!Passwordless(u)' <=> wish'[u]) /\ (u \in nopass' <=> u \in managed'))
    <3>1. CASE u = holder.user
      BY <2>3, <3>1
    <3>2. CASE u # holder.user
      BY <2>2, <3>2
    <3> QED
      BY <3>1, <3>2
  <2>5. Pam!SwitchNeverLocksOut'
    BY <2>1 DEF Pam!SwitchNeverLocksOut
  <2> QED
    BY <2>4, <2>5 DEF PolicyFits
<1> QED
  BY <1>1, <1>3, <1>5, <1>6, <1>7, <1>8, PolicyStep

LEMMA DisablePreserves ==
  ASSUME KeysInv, Pam!DisableWritesFile
  PROVE  KeysInv'
<1>1. /\ holder.op = "Disable" /\ holder.step \in {2, 3}
      /\ holder' = [holder EXCEPT !.step = holder.step + 1]
      /\ managed' \subseteq managed /\ installer' \subseteq installer
      /\ \A u \in Accounts \ {holder.user} :
           (u \in managed' <=> u \in managed) /\ (u \in installer' <=> u \in installer)
      /\ holder.step = 3 => holder.user \notin managed' \cup installer'
      /\ UNCHANGED <<enrolled, mapping, pam, nopass, minted, window, wish, cut, orphans, gaveUp>>
  BY DEF Pam!DisableWritesFile, Pam!Running, Pam!NextStep, Pam!keyFiles, Pam!histories
<1>2. /\ holder \in PolicyWrite /\ holder.user \in Accounts
      /\ OthersAsRead /\ OwnAsRead /\ OwnSoFar
  BY <1>1, WriterIs
<1>3. /\ holder' \in HelperRun /\ holder'.op = "Disable" /\ holder'.user = holder.user
      /\ holder'.step = holder.step + 1 /\ holder'.managed = holder.managed
      /\ holder'.installer = holder.installer /\ holder'.listed = holder.listed
  <2>1. holder.step + 1 \in 2 .. 4 /\ holder.step \in {2, 3, 4} /\ holder.op \in {"Enable", "Disable"}
    BY <1>1
  <2> QED
    BY <1>1, <2>1, WriterGoes
<1>4. KeysType'
  BY <1>1, <1>3 DEF KeysInv, KeysType
<1>5. PolicyRunFits'
  <2>1. OthersAsRead'
    BY <1>1, <1>2, <1>3 DEF OthersAsRead
  <2>2. OwnAsRead'
    BY <1>1, <1>2, <1>3 DEF OwnAsRead, Pam!Authenticates
  <2>3. OwnSoFar'
    BY <1>1, <1>2, <1>3 DEF OwnSoFar
  <2> QED
    BY <2>1, <2>2, <2>3 DEF PolicyRunFits
<1>6. PolicyFits'
  <2>1. ASSUME NEW u \in Locked PROVE Pam!Passwordless(u)' \/ Pam!Authenticates(u)' \/ u \in gaveUp' \cup cut'
    <3>1. u \in Accounts
      BY LockedAreAccounts
    <3>2. Pam!Passwordless(u) \/ Pam!Authenticates(u) \/ u \in gaveUp \cup cut
      BY DEF KeysInv, PolicyFits, Pam!SwitchNeverLocksOut
    <3>3. CASE u # holder.user
      BY <1>1, <3>1, <3>2, <3>3 DEF Pam!Passwordless, Pam!Authenticates
    <3>4. CASE u = holder.user /\ u \notin cut
      <4>1. PICK e \in enrolled : e.user = u
        BY <1>1, <1>2, <3>4 DEF OwnSoFar
      <4>2. e.cred \in mapping[u] /\ pam
        BY <1>1, <3>4, <4>1 DEF KeysInv, FilesAgree, Does
      <4> QED
        BY <1>1, <4>2 DEF Pam!Authenticates
    <3> QED
      BY <1>1, <3>3, <3>4
  <2>2. ASSUME NEW u \in Accounts \ cut', u # holder.user
        PROVE (Pam!Passwordless(u)' <=> wish'[u]) /\ (u \in nopass' <=> u \in managed')
    <3>1. (Pam!Passwordless(u) <=> wish[u]) /\ (u \in nopass <=> u \in managed)
      BY <1>1, <2>2 DEF KeysInv, PolicyFits, Decides
    <3> QED
      BY <1>1, <2>2, <3>1 DEF Pam!Passwordless
  <2>3. ASSUME NEW u \in Accounts, u = holder.user PROVE Decides(u)'
    BY <1>1, <1>3, <2>3 DEF Decides
  <2>4. ASSUME NEW u \in Accounts \ cut'
        PROVE  Decides(u)' \/ ((Pam!Passwordless(u)' <=> wish'[u]) /\ (u \in nopass' <=> u \in managed'))
    <3>1. CASE u = holder.user
      BY <2>3, <3>1
    <3>2. CASE u # holder.user
      BY <2>2, <3>2
    <3> QED
      BY <3>1, <3>2
  <2>5. Pam!SwitchNeverLocksOut'
    BY <2>1 DEF Pam!SwitchNeverLocksOut
  <2> QED
    BY <2>4, <2>5 DEF PolicyFits
<1> QED
  BY <1>1, <1>3, <1>4, <1>5, <1>6, PolicyStep

LEMMA OutcomePreserves ==
  ASSUME KeysInv, Pam!PolicyAccepted \/ Pam!PolicyRestored
  PROVE  KeysInv'
<1>1. /\ holder.op \in {"Enable", "Disable"} /\ holder.step = 4 /\ Pam!EndRun
      /\ UNCHANGED <<enrolled, mapping, pam, minted, cut, orphans, gaveUp>>
  BY DEF Pam!PolicyAccepted, Pam!PolicyRestored, Pam!Running, Pam!keyFiles, Pam!histories
<1>2. /\ holder \in PolicyWrite /\ holder.user \in Accounts
      /\ OthersAsRead /\ OwnAsRead /\ OwnSoFar
  BY <1>1, WriterIs
<1>3. /\ holder' = Pam!NoRun /\ holder' \in HelperRun
      /\ window' \in [Accounts -> SudoPage]
      /\ \A u \in Accounts : window'[u] = window[u] \/ window'[u].stage = "closed"
  BY <1>1, RunEnds
<1>4. holder'.op = "None" /\ PolicyRunFits'
  BY <1>3, NoRunIs DEF PolicyRunFits
<1>5. \A u \in Accounts \ (cut \cup {holder.user}) :
        (Pam!Passwordless(u) <=> wish[u]) /\ (u \in nopass <=> u \in managed)
  BY DEF KeysInv, PolicyFits, Decides
<1>6. \A u \in Locked : Pam!Passwordless(u) \/ Pam!Authenticates(u) \/ u \in gaveUp \cup cut
  BY DEF KeysInv, PolicyFits, Pam!SwitchNeverLocksOut
<1>7. CASE Pam!PolicyAccepted
  <2>1. /\ nopass' = IF holder.op = "Enable" THEN holder.listed \cup {holder.user} ELSE holder.listed \ {holder.user}
        /\ wish' = [wish EXCEPT ![holder.user] = (holder.op = "Enable")]
        /\ UNCHANGED <<managed, installer>>
    BY <1>7 DEF Pam!PolicyAccepted
  <2>2. /\ nopass' \subseteq Accounts /\ wish' \in [Accounts -> BOOLEAN]
        /\ wish'[holder.user] <=> holder.op = "Enable"
        /\ \A u \in Accounts \ {holder.user} : wish'[u] = wish[u]
    <3>1. wish \in [Accounts -> BOOLEAN] /\ (holder.op = "Enable") \in BOOLEAN /\ holder.listed \subseteq Accounts
      BY <1>2 DEF KeysInv, KeysType, PolicyWrite
    <3> QED
      BY <1>2, <2>1, <3>1
  <2>3. KeysType'
    BY <1>1, <1>3, <2>1, <2>2 DEF KeysInv, KeysType
  <2>4. \A u \in Accounts \ (cut \cup {holder.user}) :
          (Pam!Passwordless(u)' <=> wish'[u]) /\ (u \in nopass' <=> u \in managed')
    BY <1>2, <1>5, <2>1, <2>2 DEF OthersAsRead, Pam!Passwordless
  <2>5. ASSUME NEW u \in Accounts, u = holder.user
        PROVE  (Pam!Passwordless(u)' <=> wish'[u]) /\ (u \in nopass' <=> u \in managed')
    <3>1. CASE holder.op = "Enable"
      BY <1>1, <1>2, <2>1, <2>2, <2>5, <3>1 DEF OwnSoFar, Pam!Passwordless
    <3>2. CASE holder.op = "Disable"
      BY <1>1, <1>2, <2>1, <2>2, <2>5, <3>2 DEF OwnSoFar, Pam!Passwordless
    <3> QED
      BY <1>1, <3>1, <3>2
  <2>6. Pam!SwitchNeverLocksOut'
    BY <1>1, <1>6, <2>1 DEF Pam!SwitchNeverLocksOut, Pam!Passwordless, Pam!Authenticates
  <2>7. PolicyFits'
    <3>1. ASSUME NEW u \in Accounts \ cut'
          PROVE  (Pam!Passwordless(u)' <=> wish'[u]) /\ (u \in nopass' <=> u \in managed')
      <4>1. CASE u = holder.user
        BY <2>5, <4>1
      <4>2. CASE u # holder.user
        BY <1>1, <2>4, <4>2
      <4> QED
        BY <4>1, <4>2
    <3> QED
      BY <2>6, <3>1 DEF PolicyFits
  <2> QED
    BY <1>1, <1>3, <1>4, <2>1, <2>3, <2>7, PolicyStep
<1>8. CASE Pam!PolicyRestored
  <2>1. managed' = holder.managed /\ installer' = holder.installer /\ UNCHANGED <<nopass, wish>>
    BY <1>8 DEF Pam!PolicyRestored, Pam!histories
  <2>2. KeysType'
    BY <1>1, <1>2, <1>3, <2>1 DEF KeysInv, KeysType, PolicyWrite
  <2>3. \A u \in Accounts \ (cut \cup {holder.user}) :
          (u \in managed' <=> u \in managed) /\ (u \in installer' <=> u \in installer)
    BY <1>2, <2>1 DEF OthersAsRead
  <2>4. ASSUME NEW u \in Locked PROVE Pam!Passwordless(u)' \/ Pam!Authenticates(u)' \/ u \in gaveUp' \cup cut'
    <3>1. u \in Accounts
      BY LockedAreAccounts
    <3>2. CASE u = holder.user
      BY <1>1, <1>2, <2>1, <3>2 DEF OwnAsRead, Pam!Passwordless, Pam!Authenticates
    <3>3. CASE u # holder.user
      BY <1>1, <1>6, <2>3, <3>1, <3>3 DEF Pam!Passwordless, Pam!Authenticates
    <3> QED
      BY <3>2, <3>3
  <2>5. ASSUME NEW u \in Accounts \ cut'
        PROVE  (Pam!Passwordless(u)' <=> wish'[u]) /\ (u \in nopass' <=> u \in managed')
    <3>1. CASE u = holder.user
      BY <1>1, <1>2, <2>1, <2>5, <3>1 DEF OwnAsRead, Pam!Passwordless
    <3>2. CASE u # holder.user
      BY <1>1, <1>5, <2>1, <2>3, <2>5, <3>2 DEF Pam!Passwordless
    <3> QED
      BY <3>1, <3>2
  <2>6. PolicyFits'
    BY <2>4, <2>5 DEF PolicyFits, Pam!SwitchNeverLocksOut
  <2> QED
    BY <1>1, <1>3, <1>4, <2>2, <2>3, <2>6, PolicyStep
<1> QED
  BY <1>7, <1>8

LEMMA KeysKeep ==
  ASSUME KeysInv, Pam!Next
  PROVE  KeysInv'
<1>1. ASSUME NEW u \in Accounts,
             \/ Pam!OpenPage(u) \/ Pam!ClosePage(u) \/ Pam!TogglePolicy(u) \/ Pam!ToggleOff(u) \/ Pam!ToggleOn(u)
             \/ Pam!Touch(u) \/ Pam!TouchTimesOut(u) \/ Pam!Dismiss(u) \/ Pam!TakeLock(u) \/ Pam!Plug(u)
      PROVE  KeysInv'
  BY <1>1, OpenPreserves, ClosePreserves, TogglePreserves, ToggleOnPreserves, TouchPreserves, TakePreserves,
     PlugPreserves
<1> QED
  BY <1>1, EnrollMappingPreserves, EnrollMetadataPreserves, RemovePreserves, EnsurePreserves, ReadPreserves,
     EnablePreserves, DisablePreserves, OutcomePreserves, RepairPreserves, DiesPreserves DEF Pam!Next

LEMMA KeysThen ==
  ASSUME KeysInv
  PROVE  Pam!SecurityKeysAreSafe
<1> USE DEF KeysInv
<1>1. Pam!AcceptedIsListed
  BY DEF FilesAgree, Does, Pam!AcceptedIsListed, Pam!EnrolledBy
<1>2. Pam!SwitchNeverLocksOut
  BY DEF PolicyFits
<1>3. Pam!PolicyIsOwn
  BY DEF PolicyFits, Decides, Pam!PolicyIsOwn
<1>4. Pam!EnrollmentNamesKey
  BY DEF NamesFit, Pam!EnrollmentNamesKey
<1>5. Pam!PolicyShownIsReal
  BY DEF PageFits, Pam!PolicyShownIsReal
<1> QED
  BY <1>1, <1>2, <1>3, <1>4, <1>5 DEF Pam!SecurityKeysAreSafe

LEMMA KeysRest == KeysInv /\ UNCHANGED ofPam => KeysInv'
<1> SUFFICES ASSUME KeysInv, UNCHANGED ofPam PROVE KeysInv'
  OBVIOUS
<1>1. UNCHANGED <<enrolled, mapping, pam, managed, installer, nopass, minted, window, holder, wish, cut,
                  orphans, gaveUp>>
  BY DEF ofPam
<1>2. KeysType' /\ \A u \in Accounts : PageFits(u)'
  BY <1>1 DEF KeysInv, KeysType, PageFits, Works, Listed
<1>3. NumbersFit' /\ NamesFit' /\ KeyRunFits'
  BY <1>1 DEF KeysInv, NumbersFit, NamesFit, KeyRunFits, Listed, Asks, Wanted, Unwritten
<1>4. FilesAgree'
  BY <1>1 DEF KeysInv, FilesAgree, Does
<1>5. PolicyRunFits' /\ PolicyFits'
  BY <1>1 DEF KeysInv, PolicyRunFits, OthersAsRead, OwnAsRead, OwnSoFar, PolicyFits,
     Pam!SwitchNeverLocksOut, Pam!Passwordless, Pam!Authenticates, Decides
<1> QED
  BY <1>2, <1>3, <1>4, <1>5 DEF KeysInv

KeysBeside == program = "security keys" => KeysInv

LEMMA KeysBesideHolds == ProgramSpec => []KeysBeside
<1>1. ProgramInit => KeysBeside
  BY KeysStart DEF ProgramInit, KeysBeside
<1>2. KeysBeside /\ [ProgramNext]_programVars => KeysBeside'
  <2> SUFFICES ASSUME KeysBeside, [ProgramNext]_programVars PROVE KeysBeside'
    OBVIOUS
  <2>1. CASE ProgramNext
    <3>1. program' = program /\ (program = "security keys" => Pam!Next)
      BY <2>1 DEF ProgramNext
    <3> QED
      BY <3>1, KeysKeep DEF KeysBeside
  <2>2. CASE UNCHANGED programVars
    <3>1. program' = program /\ UNCHANGED ofPam
      BY <2>2 DEF programVars
    <3> QED
      BY <3>1, KeysRest DEF KeysBeside
  <2> QED
    BY <2>1, <2>2
<1> QED
  BY <1>1, <1>2, PTL DEF ProgramSpec

\* Whatever pages are open, whatever keys come and go and wherever a helper run dies between
\* two of its writes: sudo accepts only credentials that are listed, or left by an enrolment
\* that died before its record; no account is locked out by the switch; nobody's policy changes
\* but by a choice of its own; and an entry names the key it was made with.
THEOREM SecurityKeysAlwaysSafe == ProgramSpec => []SecurityKeysAreSafe
<1>1. KeysBeside => SecurityKeysAreSafe
  BY KeysThen DEF KeysBeside, SecurityKeysAreSafe
<1> QED
  BY <1>1, KeysBesideHolds, PTL

(*****************************************************************************)
(* The Home page (KeyHome).                                                  *)
(*****************************************************************************)
HomeReads ==
  /\ reading # <<>> => reading = <<reading[1]>> /\ "clean" \in DOMAIN reading[1] /\ reading[1].clean \in BOOLEAN
  /\ fresh \in BOOLEAN /\ snapshot.known \in BOOLEAN
  /\ snapshot.known => snapshot = [known |-> TRUE, keys |-> snapshot.keys, configured |-> snapshot.configured]

\* A reading that nothing disturbed, and after one every reading, has the keys that are there.
HomeAgrees ==
  /\ reading # <<>> \/ fresh => snapshot.known
  /\ fresh => full = <<>> /\ snapshot.keys = plugged
  /\ reading # <<>> /\ reading[1].clean => full = <<>>
  /\ reading # <<>> /\ reading[1].read /\ (reading[1].clean \/ fresh) => reading[1].keys = plugged

KeyHomeInv == HomeReads /\ HomeAgrees

LEMMA KeyHomeStarts == Keyring!Init => KeyHomeInv
<1> SUFFICES ASSUME Keyring!Init PROVE KeyHomeInv
  OBVIOUS
<1>1. reading = <<>> /\ full = <<>> /\ fresh = FALSE /\ snapshot = [known |-> FALSE]
  BY DEF Keyring!Init, Keyring!NoSnapshot
<1>2. snapshot.known = FALSE
  BY <1>1
<1> QED
  BY <1>1, <1>2 DEF KeyHomeInv, HomeReads, HomeAgrees

LEMMA KeyHomeRests == KeyHomeInv /\ UNCHANGED ofKeyring => KeyHomeInv'
BY DEF ofKeyring, KeyHomeInv, HomeReads, HomeAgrees

LEMMA KeyHomeThen == KeyHomeInv => Keyring!HomeIsFresh
BY DEF KeyHomeInv, HomeAgrees, Keyring!HomeIsFresh

LEMMA OneElement == ASSUME NEW x, NEW f, f = [i \in {1} |-> x] PROVE f = <<x>> /\ f[1] = x
OBVIOUS

\* What was read, when something happens beside it.
LEMMA Disturbed ==
  ASSUME KeyHomeInv, reading' = [i \in DOMAIN reading |-> [reading[i] EXCEPT !.clean = FALSE]]
  PROVE  reading' # <<>> => /\ reading # <<>> /\ reading' = <<reading'[1]>>
                            /\ "clean" \in DOMAIN reading'[1] /\ reading'[1].clean = FALSE
<1>1. CASE reading = <<>>
  BY <1>1
<1>2. CASE reading # <<>>
  <2>1. reading = <<reading[1]>> /\ "clean" \in DOMAIN reading[1]
    BY <1>2 DEF KeyHomeInv, HomeReads
  <2>2. DOMAIN reading = {1}
    BY <2>1
  <2> DEFINE r == reading[1]
             x == [r EXCEPT !.clean = FALSE]
  <2>3. "clean" \in DOMAIN x /\ x.clean = FALSE
    BY <2>1
  <2>4. reading' = [i \in {1} |-> x]
    BY <2>2
  <2> HIDE DEF x
  <2>5. reading' = <<x>> /\ reading'[1] = x
    BY <2>4, OneElement
  <2> QED
    BY <1>2, <2>3, <2>5
<1> QED
  BY <1>1, <1>2

LEMMA KeyHomeKeeps == KeyHomeInv /\ Keyring!Next => KeyHomeInv'
<1> SUFFICES ASSUME KeyHomeInv, Keyring!Next PROVE KeyHomeInv'
  OBVIOUS
<1>1. CASE Keyring!Change
  <2>1. CASE fresh' = FALSE /\ reading' = [i \in DOMAIN reading |-> [reading[i] EXCEPT !.clean = FALSE]]
    BY <1>1, <2>1, Disturbed DEF KeyHomeInv, HomeReads, HomeAgrees, Keyring!Change
  <2>2. CASE UNCHANGED <<plugged, reading, fresh>>
    BY <1>1, <2>2 DEF KeyHomeInv, HomeReads, HomeAgrees, Keyring!Change
  <2> QED
    BY <1>1, <2>1, <2>2 DEF Keyring!Change
<1>2. CASE Keyring!VisitHome
  <2>1. fresh' = FALSE
    BY <1>2 DEF Keyring!VisitHome, KeyHomeInv, HomeReads, HomeAgrees
  <2> QED
    BY <1>2, <2>1, Disturbed DEF Keyring!VisitHome, KeyHomeInv, HomeReads, HomeAgrees
<1>3. CASE Keyring!LeaveHome
  BY <1>3 DEF Keyring!LeaveHome, KeyHomeInv, HomeReads, HomeAgrees
<1>4. CASE Keyring!ReadEverything
  BY <1>4 DEF Keyring!ReadEverything, KeyHomeInv, HomeReads, HomeAgrees
<1>5. CASE Keyring!EndFull
  BY <1>5 DEF Keyring!EndFull, KeyHomeInv, HomeReads, HomeAgrees
<1>6. CASE Keyring!UdevEvent
  BY <1>6 DEF Keyring!UdevEvent, KeyHomeInv, HomeReads, HomeAgrees
<1>7. Keyring!StartReading /\ UNCHANGED <<plugged, configured, snapshot, fresh>> => KeyHomeInv'
  <2> SUFFICES ASSUME Keyring!StartReading, UNCHANGED <<plugged, configured, snapshot, fresh>> PROVE KeyHomeInv'
    OBVIOUS
  <2>1. \/ reading # <<>> /\ UNCHANGED <<reading, full>>
        \/ reading = <<>> /\ ~snapshot.known /\ Keyring!StartFull /\ UNCHANGED reading
        \/ reading = <<>> /\ snapshot.known /\ reading' = <<Keyring!Begun>> /\ UNCHANGED full
    BY Zenon DEF Keyring!StartReading
  <2>2. CASE reading # <<>> /\ UNCHANGED <<reading, full>>
    BY <2>2 DEF KeyHomeInv, HomeReads, HomeAgrees
  <2>3. CASE reading = <<>> /\ ~snapshot.known /\ Keyring!StartFull /\ UNCHANGED reading
    BY <2>3 DEF KeyHomeInv, HomeReads, HomeAgrees, Keyring!StartFull, Keyring!Unread
  <2>4. CASE reading = <<>> /\ snapshot.known /\ reading' = <<Keyring!Begun>> /\ UNCHANGED full
    BY <2>4 DEF KeyHomeInv, HomeReads, HomeAgrees, Keyring!Begun
  <2> QED
    BY <2>1, <2>2, <2>3, <2>4
<1>8. CASE Keyring!DebounceElapses
  BY <1>7, <1>8 DEF Keyring!DebounceElapses, Keyring!RefreshDevices
<1>9. CASE Keyring!Poll
  BY <1>7, <1>9 DEF Keyring!Poll, Keyring!RefreshDevices
<1>10. CASE Keyring!ReadDevices
  <2>1. PICK i \in DOMAIN reading : ~reading[i].read
        /\ reading' = [reading EXCEPT ![i] = [read |-> TRUE, clean |-> @.clean, keys |-> plugged]]
    BY <1>10 DEF Keyring!ReadDevices
  <2>2. reading # <<>> /\ i = 1 /\ reading = <<reading[1]>>
    BY <2>1 DEF KeyHomeInv, HomeReads
  <2> DEFINE r == [read |-> TRUE, clean |-> reading[1].clean, keys |-> plugged]
  <2>3. "clean" \in DOMAIN r /\ r.clean = reading[1].clean /\ r.keys = plugged
    OBVIOUS
  <2>4. reading' = [reading EXCEPT ![1] = r]
    BY <2>1, <2>2
  <2> HIDE DEF r
  <2>5. reading' = <<r>>
    BY <2>2, <2>4
  <2> QED
    BY <1>10, <2>2, <2>3, <2>5 DEF Keyring!ReadDevices, KeyHomeInv, HomeReads, HomeAgrees
<1>11. CASE Keyring!EndReading
  <2>1. PICK i \in DOMAIN reading :
          /\ reading[i].read
          /\ snapshot' = [snapshot EXCEPT !.keys = reading[i].keys]
          /\ fresh' = (fresh \/ reading[i].clean)
          /\ reading' = IF pending THEN <<Keyring!Begun>> ELSE SubSeq(reading, 1, i - 1) \o SubSeq(reading, i + 1, Len(reading))
    BY <1>11 DEF Keyring!EndReading
  <2>2. reading # <<>> /\ i = 1 /\ reading = <<reading[1]>>
    BY <2>1 DEF KeyHomeInv, HomeReads
  <2> DEFINE r == reading[1]
  <2>3. snapshot.known /\ snapshot = [known |-> TRUE, keys |-> snapshot.keys, configured |-> snapshot.configured]
    BY <2>2 DEF KeyHomeInv, HomeReads, HomeAgrees
  <2>4. snapshot' = [known |-> TRUE, keys |-> r.keys, configured |-> snapshot.configured]
    BY <2>1, <2>2, <2>3
  <2>5. fresh' \in BOOLEAN /\ (fresh' => full = <<>> /\ r.keys = plugged)
    BY <2>1, <2>2 DEF KeyHomeInv, HomeReads, HomeAgrees
  <2>6. CASE pending
    <3> DEFINE b == Keyring!Begun
    <3>1. b.clean \in BOOLEAN /\ "clean" \in DOMAIN b /\ ~b.read /\ (b.clean => full = <<>>)
      BY DEF Keyring!Begun
    <3>2. reading' = <<b>>
      BY <2>1, <2>6
    <3>3. UNCHANGED <<full, plugged>>
      BY <1>11 DEF Keyring!EndReading
    <3> HIDE DEF b
    <3>4. reading' # <<>> /\ reading'[1] = b
      BY <3>2
    <3>5. snapshot'.known /\ snapshot'.known \in BOOLEAN /\ snapshot'.keys = r.keys
          /\ snapshot' = [known |-> TRUE, keys |-> snapshot'.keys, configured |-> snapshot'.configured]
      BY <2>4
    <3>6. HomeReads'
      BY <2>5, <3>1, <3>2, <3>4, <3>5 DEF HomeReads
    <3>7. HomeAgrees'
      BY <2>5, <3>1, <3>3, <3>4, <3>5 DEF HomeAgrees
    <3> QED
      BY <3>6, <3>7 DEF KeyHomeInv
  <2>7. CASE ~pending
    <3>1. SubSeq(<<r>>, 1, 0) = <<>> /\ SubSeq(<<r>>, 2, 1) = <<>>
      OBVIOUS
    <3>2. reading' = <<>>
      BY <2>1, <2>2, <2>7, <3>1
    <3> QED
      BY <1>11, <2>4, <2>5, <2>7, <3>2 DEF Keyring!EndReading, KeyHomeInv, HomeReads, HomeAgrees
  <2> QED
    BY <2>6, <2>7
<1> QED
  BY <1>1, <1>2, <1>3, <1>4, <1>5, <1>6, <1>8, <1>9, <1>10, <1>11 DEF Keyring!Next

\* While the Home page is not the program that runs, nothing of it changes.
KeyHomeBeside == program = "key home" => KeyHomeInv

LEMMA KeyHomeBesideHolds == ProgramSpec => []KeyHomeBeside
<1>1. ProgramInit => KeyHomeBeside
  BY KeyHomeStarts DEF ProgramInit, KeyHomeBeside
<1>2. KeyHomeBeside /\ [ProgramNext]_programVars => KeyHomeBeside'
  <2> SUFFICES ASSUME KeyHomeBeside, [ProgramNext]_programVars PROVE KeyHomeBeside'
    OBVIOUS
  <2>1. CASE ProgramNext
    <3>1. program' = program /\ (program = "key home" => Keyring!Next)
      BY <2>1 DEF ProgramNext
    <3> QED
      BY <3>1, KeyHomeKeeps DEF KeyHomeBeside
  <2>2. CASE UNCHANGED programVars
    <3>1. program' = program /\ UNCHANGED ofKeyring
      BY <2>2 DEF programVars
    <3> QED
      BY <3>1, KeyHomeRests DEF KeyHomeBeside
  <2> QED
    BY <2>1, <2>2
<1> QED
  BY <1>1, <1>2, PTL DEF ProgramSpec

(*****************************************************************************)
(* The switch of the SSH configuration (SshPersistence).                     *)
(*****************************************************************************)
SshFile == [text : Nat, block : Ssh!Blocks, include : BOOLEAN, bad : BOOLEAN]
NotYetIn == {"fragment", "check", "rename", "undo"}
Withdrawn == {"unlink", "rollback", "restore"}
Under(way) == change.at \in way
Enabling == change.wanted = "Enabled"

ChangeShape ==
  /\ "at" \in DOMAIN change /\ change.at \in {"idle", "failed", "read", "inspect"} \cup NotYetIn \cup Withdrawn
  /\ Under({"failed"}) => {"found", "cleaned"} \subseteq DOMAIN change
  /\ ~Under({"idle", "failed"}) =>
       /\ DOMAIN change = {"at", "wanted", "made", "found", "original"}
       /\ change.wanted \in {"Enabled", "Disabled"} /\ change.made \in BOOLEAN
       /\ change.made => Enabling
  /\ Under(NotYetIn \cup Withdrawn) => change.original \in SshFile
  /\ Under({"read", "fragment"}) => ~change.made
  /\ Under({"fragment"}) => Enabling
  /\ Under(Withdrawn) => ~Enabling

SshType ==
  /\ sshConfig \in SshFile /\ fragment \in {"none", "ours", "foreign"} /\ edits \in Nat
  /\ meddled \in BOOLEAN /\ raced \in BOOLEAN /\ others \in BOOLEAN
  /\ ChangeShape

\* Where the block is in the file, and whether its fragment is there.
BlockSteps ==
  /\ fragment = "foreign" => meddled
  /\ sshConfig.block = "whole" => fragment = "ours" \/ meddled
  /\ Under(NotYetIn) /\ Enabling => sshConfig.block # "whole"
  /\ Under({"check", "rename", "unlink"}) => fragment = "ours" \/ meddled
  /\ Under(Withdrawn) => sshConfig.block # "whole"
  /\ Under({"rollback", "restore"}) => fragment = "ours" \/ meddled

\* What is renamed over the file is made of the text that is in it.
TextSteps ==
  /\ sshConfig.text = edits \/ raced
  /\ Under({"rename"}) => sshConfig = change.original \/ raced
  /\ Under({"restore"}) => sshConfig = Ssh!Candidate \/ raced

\* What a run that is alone with the files knows of them.
AsFound(c) == c.block = change.found.block /\ fragment = change.found.fragment
Sane(b, f) == (b = "whole" /\ f = "ours") \/ (b = "none" /\ f # "foreign")
Alone ==
  /\ ~Under({"idle"}) => Sane(change.found.block, change.found.fragment)
  /\ Under({"read"}) => AsFound(sshConfig)
  /\ Under({"read"}) => Ssh!InspectState(sshConfig, fragment) = Ssh!Other(change.wanted)
  /\ Under(NotYetIn) => sshConfig = change.original /\ sshConfig.block = change.found.block
  /\ Under(NotYetIn) /\ ~change.made => fragment = change.found.fragment
  /\ Under(NotYetIn) /\ change.made => fragment = "ours" /\ change.found.fragment = "none"
  /\ Under({"check", "rename"}) /\ Enabling => fragment = "ours"
  /\ Under({"rename"}) => ~sshConfig.bad
  /\ Under(NotYetIn) /\ ~Enabling => fragment = "ours" /\ ~sshConfig.include
  /\ Under(Withdrawn) => sshConfig = Ssh!Candidate /\ AsFound(change.original) /\ fragment = "ours" /\ ~sshConfig.include
  /\ Under({"inspect"}) => sshConfig.include \/ Ssh!Validated(Ssh!InspectState(sshConfig, fragment)) = change.wanted
  /\ Under({"failed"}) => sshConfig.include \/ (Sane(sshConfig.block, fragment) /\ (change.cleaned => AsFound(sshConfig)))

SshInv == SshType /\ BlockSteps /\ TextSteps /\ (~others => Alone)

LEMMA SshThen == SshInv => Ssh!PersistenceIsSafe
<1> SUFFICES ASSUME SshInv PROVE Ssh!PersistenceIsSafe
  OBVIOUS
<1>1. Ssh!BlockHasFragment /\ Ssh!EditsSurvive
  BY DEF SshInv, BlockSteps, TextSteps, Ssh!BlockHasFragment, Ssh!EditsSurvive
<1>2. Ssh!FailureRestores
  BY DEF SshInv, Alone, AsFound, Under, Sane, Ssh!FailureRestores, Ssh!InspectState
<1> QED
  BY <1>1, <1>2 DEF Ssh!PersistenceIsSafe

LEMMA SshStarts == Ssh!Init => SshInv
<1> SUFFICES ASSUME Ssh!Init PROVE SshInv
  OBVIOUS
<1>1. change = [at |-> "idle"] /\ fragment = "none" /\ edits = 0 /\ meddled = FALSE /\ raced = FALSE /\ others = FALSE
      /\ sshConfig \in SshFile /\ sshConfig.text = 0 /\ sshConfig.block = "none"
  BY DEF Ssh!Init, Ssh!NoChange, SshFile, Ssh!Blocks
<1>2. change.at = "idle" /\ "at" \in DOMAIN change
  BY <1>1
<1> QED
  BY <1>1, <1>2 DEF SshInv, SshType, ChangeShape, BlockSteps, TextSteps, Alone, Under, NotYetIn, Withdrawn

LEMMA SshRests == SshInv /\ UNCHANGED ofSsh => SshInv'
BY DEF ofSsh, SshInv, SshType, ChangeShape, BlockSteps, TextSteps, Alone, AsFound, Under, Enabling,
       Ssh!Candidate, Ssh!InspectState, Ssh!Other, Ssh!Validated, Ssh!SshAccepts

\* The next call of a run.
LEMMA RunGoesOn ==
  ASSUME SshType, ~Under({"idle", "failed"}), NEW p, change' = [change EXCEPT !.at = p]
  PROVE  /\ change'.at = p /\ DOMAIN change' = DOMAIN change
         /\ change'.wanted = change.wanted /\ change'.made = change.made /\ change'.found = change.found
         /\ change'.original = change.original /\ Ssh!Candidate' = Ssh!Candidate
<1>1. DOMAIN change = {"at", "wanted", "made", "found", "original"}
  BY DEF SshType, ChangeShape
<1>2. change'.at = p /\ DOMAIN change' = DOMAIN change /\ change'.original = change.original
      /\ change'.wanted = change.wanted /\ change'.made = change.made /\ change'.found = change.found
  BY <1>1
<1> QED
  BY <1>2 DEF Ssh!Candidate

LEMMA RunFails ==
  ASSUME SshType, ~Under({"idle", "failed"}), NEW c, Ssh!FailAs(c)
  PROVE  /\ change'.at = "failed" /\ DOMAIN change' = {"at", "found", "cleaned"} /\ change'.found = change.found
         /\ change'.cleaned = c
BY DEF Ssh!FailAs

\* A run that failed leaves its invariant to the two files.
LEMMA FailureLeaves ==
  ASSUME SshInv, ~Under({"idle", "failed"}), NEW c \in BOOLEAN, Ssh!FailAs(c),
         others' = others, raced' = raced, meddled' = meddled, edits' = edits,
         sshConfig' \in SshFile, fragment' \in {"none", "ours", "foreign"},
         fragment' = "foreign" => meddled,
         sshConfig'.block = "whole" => fragment' = "ours" \/ meddled,
         sshConfig'.text = edits \/ raced,
         ~others => \/ sshConfig'.include
                    \/ /\ Sane(sshConfig'.block, fragment')
                       /\ c => sshConfig'.block = change.found.block /\ fragment' = change.found.fragment
  PROVE  SshInv'
<1>1. change'.at = "failed" /\ DOMAIN change' = {"at", "found", "cleaned"} /\ change'.found = change.found
      /\ change'.cleaned = c
  BY RunFails DEF SshInv
<1>2. SshType'
  BY <1>1 DEF SshInv, SshType, ChangeShape, Under, NotYetIn, Withdrawn
<1>3. BlockSteps' /\ TextSteps'
  BY <1>1 DEF BlockSteps, TextSteps, Under, NotYetIn, Withdrawn
<1>4. ~others => Sane(change.found.block, change.found.fragment)
  BY DEF SshInv, Alone, Under
<1>5. ~others => Alone'
  BY <1>1, <1>4 DEF Alone, AsFound, Under, NotYetIn, Withdrawn
<1> QED
  BY <1>2, <1>3, <1>5 DEF SshInv

\* One that has taken back what it changed.
LEMMA FailureKeeps ==
  ASSUME SshInv, ~Under({"idle", "failed"}), Ssh!Fail, others' = others, raced' = raced, meddled' = meddled, edits' = edits,
         sshConfig' \in SshFile, fragment' \in {"none", "ours", "foreign"},
         fragment' = "foreign" => meddled,
         sshConfig'.block = "whole" => fragment' = "ours" \/ meddled,
         sshConfig'.text = edits \/ raced,
         ~others => sshConfig'.include \/ (sshConfig'.block = change.found.block /\ fragment' = change.found.fragment)
  PROVE  SshInv'
<1>1. ~others => Sane(change.found.block, change.found.fragment)
  BY DEF SshInv, Alone, Under
<1>2. Ssh!FailAs(TRUE)
  BY DEF Ssh!Fail
<1>3. ~others => sshConfig'.include \/ Sane(sshConfig'.block, fragment')
  BY <1>1
<1> QED
  BY <1>2, <1>3, FailureLeaves

LEMMA ShowSwitchKeeps == SshInv /\ Ssh!ShowSwitch => SshInv'
BY DEF Ssh!ShowSwitch, SshInv, SshType, ChangeShape, BlockSteps, TextSteps, Alone, AsFound, Under, Enabling,
       Ssh!Candidate, Ssh!InspectState, Ssh!Other, Ssh!Validated, Ssh!SshAccepts

LEMMA SetEnabledKeeps == SshInv /\ Ssh!SetEnabled => SshInv'
<1> SUFFICES ASSUME SshInv, Ssh!SetEnabled PROVE SshInv'
  OBVIOUS
<1>1. UNCHANGED <<sshConfig, fragment, edits, meddled, raced>> /\ others' = FALSE /\ toggle \in {"Enabled", "Disabled"}
  BY DEF Ssh!SetEnabled
<1>2. CASE change' = Ssh!NoChange
  <2>1. change'.at = "idle" /\ "at" \in DOMAIN change'
    BY <1>2 DEF Ssh!NoChange
  <2> QED
    BY <1>1, <2>1 DEF SshInv, SshType, ChangeShape, BlockSteps, TextSteps, Alone, Under, NotYetIn, Withdrawn
<1>3. CASE /\ Ssh!InspectState(sshConfig, fragment) = toggle
           /\ change' = [at |-> "read", wanted |-> Ssh!Other(toggle), made |-> FALSE, original |-> "unread",
                         found |-> [block |-> sshConfig.block, fragment |-> fragment]]
  <2>1. /\ change'.at = "read" /\ DOMAIN change' = {"at", "wanted", "made", "found", "original"}
        /\ change'.wanted = Ssh!Other(toggle) /\ change'.made = FALSE
        /\ change'.found.block = sshConfig.block /\ change'.found.fragment = fragment
    BY <1>3
  <2>2. change'.wanted \in {"Enabled", "Disabled"} /\ Ssh!Other(change'.wanted) = toggle
    BY <1>1, <2>1 DEF Ssh!Other
  <2>3. SshType'
    BY <1>1, <2>1, <2>2 DEF SshInv, SshType, ChangeShape, Under, NotYetIn, Withdrawn
  <2>4. BlockSteps' /\ TextSteps'
    BY <1>1, <2>1 DEF SshInv, BlockSteps, TextSteps, Under, NotYetIn, Withdrawn
  <2>5. Ssh!InspectState(sshConfig', fragment') = Ssh!Other(change'.wanted)
    BY <1>1, <1>3, <2>2
  <2>6. Sane(sshConfig.block, fragment)
    BY <1>1, <1>3 DEF Sane, Ssh!InspectState
  <2>7. Alone'
    BY <1>1, <2>1, <2>5, <2>6 DEF Alone, AsFound, Under, NotYetIn, Withdrawn
  <2> QED
    BY <2>3, <2>4, <2>7 DEF SshInv
<1> QED
  BY <1>2, <1>3 DEF Ssh!SetEnabled

LEMMA ReadToEnableKeeps == SshInv /\ Ssh!ReadToEnable => SshInv'
<1> SUFFICES ASSUME SshInv, Ssh!ReadToEnable PROVE SshInv'
  OBVIOUS
<1>1. UNCHANGED <<sshConfig, fragment, edits, meddled, raced, others>> /\ change.at = "read" /\ change.wanted = "Enabled"
  BY DEF Ssh!ReadToEnable
<1>2. /\ DOMAIN change = {"at", "wanted", "made", "found", "original"} /\ change.made = FALSE /\ ~Under({"idle", "failed"})
  BY <1>1 DEF SshInv, SshType, ChangeShape, Under
<1>3. CASE sshConfig.block = "none" /\ change' = [change EXCEPT !.at = "fragment", !.original = sshConfig]
  <2>1. /\ DOMAIN change' = {"at", "wanted", "made", "found", "original"} /\ change'.at = "fragment"
        /\ change'.wanted = change.wanted /\ change'.made = FALSE /\ change'.found = change.found /\ change'.original = sshConfig
    BY <1>2, <1>3
  <2>2. SshType'
    BY <1>1, <2>1 DEF SshInv, SshType, ChangeShape, Under, NotYetIn, Withdrawn, Enabling
  <2>3. BlockSteps' /\ TextSteps'
    BY <1>1, <1>3, <2>1 DEF SshInv, BlockSteps, TextSteps, Under, NotYetIn, Withdrawn
  <2>4. ~others => Alone'
    BY <1>1, <2>1 DEF SshInv, Alone, AsFound, Under, NotYetIn, Withdrawn, Enabling
  <2> QED
    BY <1>1, <2>2, <2>3, <2>4 DEF SshInv
<1>4. CASE sshConfig.block = "whole" /\ Ssh!GoOn("inspect")
  <2>1. /\ DOMAIN change' = DOMAIN change /\ change'.at = "inspect" /\ change'.wanted = change.wanted
        /\ change'.made = change.made /\ change'.found = change.found
    BY <1>2, <1>4, RunGoesOn DEF Ssh!GoOn, SshInv
  <2>2. SshType'
    BY <1>1, <1>2, <2>1 DEF SshInv, SshType, ChangeShape, Under, NotYetIn, Withdrawn, Enabling
  <2>3. BlockSteps' /\ TextSteps'
    BY <1>1, <2>1 DEF SshInv, BlockSteps, TextSteps, Under, NotYetIn, Withdrawn
  <2>4. others
    BY <1>1, <1>4 DEF SshInv, SshType, Alone, Under, Ssh!InspectState, Ssh!Other
  <2> QED
    BY <1>1, <2>2, <2>3, <2>4 DEF SshInv
<1>5. CASE Ssh!Fail
  <2>1. ~others => sshConfig.block = change.found.block /\ fragment = change.found.fragment
    BY <1>1 DEF SshInv, Alone, AsFound, Under
  <2> QED
    BY <1>1, <1>2, <1>5, <2>1, FailureKeeps DEF SshInv, SshType, BlockSteps, TextSteps
<1> QED
  BY <1>3, <1>4, <1>5 DEF Ssh!ReadToEnable

LEMMA ReadToDisableKeeps == SshInv /\ Ssh!ReadToDisable => SshInv'
<1> SUFFICES ASSUME SshInv, Ssh!ReadToDisable PROVE SshInv'
  OBVIOUS
<1>1. UNCHANGED <<sshConfig, fragment, edits, meddled, raced, others>> /\ change.at = "read" /\ change.wanted = "Disabled"
  BY DEF Ssh!ReadToDisable
<1>2. /\ DOMAIN change = {"at", "wanted", "made", "found", "original"} /\ change.made = FALSE /\ ~Under({"idle", "failed"})
  BY <1>1 DEF SshInv, SshType, ChangeShape, Under
<1>3. CASE sshConfig.block = "whole" /\ change' = [change EXCEPT !.at = "check", !.original = sshConfig]
  <2>1. /\ DOMAIN change' = {"at", "wanted", "made", "found", "original"} /\ change'.at = "check"
        /\ change'.wanted = change.wanted /\ change'.made = FALSE /\ change'.found = change.found /\ change'.original = sshConfig
    BY <1>2, <1>3
  <2>2. SshType'
    BY <1>1, <2>1 DEF SshInv, SshType, ChangeShape, Under, NotYetIn, Withdrawn, Enabling
  <2>3. BlockSteps'
    BY <1>1, <1>3, <2>1 DEF SshInv, BlockSteps, Under, NotYetIn, Withdrawn, Enabling
  <2>6. TextSteps'
    BY <1>1, <2>1 DEF SshInv, TextSteps, Under
  <2>4. ~others => fragment = "ours" /\ ~sshConfig.include
    BY <1>1 DEF SshInv, Alone, Under, Ssh!InspectState, Ssh!Other
  <2>5. ~others => Alone'
    BY <1>1, <2>1, <2>4 DEF SshInv, Alone, AsFound, Under, NotYetIn, Withdrawn, Enabling
  <2> QED
    BY <1>1, <2>2, <2>3, <2>5, <2>6 DEF SshInv
<1>4. CASE Ssh!Fail
  <2>1. ~others => sshConfig.block = change.found.block /\ fragment = change.found.fragment
    BY <1>1 DEF SshInv, Alone, AsFound, Under
  <2> QED
    BY <1>1, <1>2, <1>4, <2>1, FailureKeeps DEF SshInv, SshType, BlockSteps, TextSteps
<1> QED
  BY <1>3, <1>4 DEF Ssh!ReadToDisable

LEMMA CreateFragmentKeeps == SshInv /\ Ssh!CreateFragment => SshInv'
<1> SUFFICES ASSUME SshInv, Ssh!CreateFragment PROVE SshInv'
  OBVIOUS
<1>1. UNCHANGED <<sshConfig, edits, meddled, raced, others>> /\ change.at = "fragment"
  BY DEF Ssh!CreateFragment
<1>2. change.made = FALSE /\ change.wanted = "Enabled" /\ DOMAIN change = {"at", "wanted", "made", "found", "original"}
  BY <1>1 DEF SshInv, SshType, ChangeShape, Under, Enabling
<1>3. CASE fragment = "none" /\ fragment' = "ours" /\ change' = [change EXCEPT !.at = "check", !.made = TRUE]
  <2>1. /\ DOMAIN change' = DOMAIN change /\ change'.at = "check" /\ change'.wanted = change.wanted
        /\ change'.made = TRUE /\ change'.found = change.found /\ change'.original = change.original
    BY <1>2, <1>3
  <2>2. SshType'
    BY <1>1, <1>2, <1>3, <2>1 DEF SshInv, SshType, ChangeShape, Under, NotYetIn, Withdrawn, Enabling
  <2>3. BlockSteps'
    BY <1>1, <1>2, <1>3, <2>1 DEF SshInv, BlockSteps, Under, NotYetIn, Withdrawn, Enabling
  <2>4. TextSteps'
    BY <1>1, <1>2, <1>3, <2>1 DEF SshInv, TextSteps, Under, NotYetIn, Withdrawn
  <2>5. ~others => Alone'
    BY <1>1, <1>2, <1>3, <2>1 DEF SshInv, Alone, AsFound, Under, NotYetIn, Withdrawn, Enabling
  <2> QED
    BY <1>1, <2>2, <2>3, <2>4, <2>5 DEF SshInv
<1>4. CASE fragment = "ours" /\ Ssh!GoOn("check") /\ UNCHANGED fragment
  <2>1. /\ DOMAIN change' = DOMAIN change /\ change'.at = "check" /\ change'.wanted = change.wanted
        /\ change'.made = change.made /\ change'.found = change.found
        /\ change'.original = change.original /\ Ssh!Candidate' = Ssh!Candidate
    BY <1>1, <1>4, RunGoesOn DEF Ssh!GoOn, SshInv, Under
  <2>2. SshType'
    BY <1>1, <1>2, <1>4, <2>1 DEF SshInv, SshType, ChangeShape, Under, NotYetIn, Withdrawn, Enabling
  <2>3. BlockSteps'
    BY <1>1, <1>2, <1>4, <2>1 DEF SshInv, BlockSteps, Under, NotYetIn, Withdrawn, Enabling
  <2>4. TextSteps'
    BY <1>1, <1>2, <1>4, <2>1 DEF SshInv, TextSteps, Under, NotYetIn, Withdrawn
  <2>5. ~others => Alone'
    BY <1>1, <1>2, <1>4, <2>1 DEF SshInv, Alone, AsFound, Under, NotYetIn, Withdrawn, Enabling
  <2> QED
    BY <1>1, <2>2, <2>3, <2>4, <2>5 DEF SshInv
<1>5. CASE Ssh!Fail /\ UNCHANGED fragment
  <2>1. ~others => sshConfig.block = change.found.block /\ fragment = change.found.fragment
    BY <1>1, <1>2 DEF SshInv, Alone, AsFound, Under, NotYetIn
  <2> QED
    BY <1>1, <1>5, <2>1, FailureKeeps DEF SshInv, SshType, BlockSteps, TextSteps, Under
<1> QED
  BY <1>3, <1>4, <1>5 DEF Ssh!CreateFragment

LEMMA CheckConfigKeeps == SshInv /\ Ssh!CheckConfig => SshInv'
<1> SUFFICES ASSUME SshInv, Ssh!CheckConfig PROVE SshInv'
  OBVIOUS
<1>1. UNCHANGED <<sshConfig, fragment, edits, meddled, raced, others>> /\ change.at = "check"
  BY DEF Ssh!CheckConfig
<1>2. CASE Ssh!SshAccepts(Ssh!Candidate) /\ Ssh!StillAsRead /\ Ssh!GoOn("rename")
  <2>1. /\ DOMAIN change' = DOMAIN change /\ change'.at = "rename" /\ change'.wanted = change.wanted
        /\ change'.made = change.made /\ change'.found = change.found
        /\ change'.original = change.original /\ Ssh!Candidate' = Ssh!Candidate
    BY <1>1, <1>2, RunGoesOn DEF Ssh!GoOn, SshInv, Under
  <2>2. sshConfig = change.original /\ ~sshConfig.bad
    <3>1. change.original \in SshFile
      BY <1>1 DEF SshInv, SshType, ChangeShape, Under, NotYetIn
    <3>2. Ssh!Candidate.bad = change.original.bad
      BY <3>1 DEF Ssh!Candidate, SshFile
    <3> QED
      BY <1>2, <3>2 DEF Ssh!StillAsRead, Ssh!SshAccepts
  <2>3. SshType'
    BY <1>1, <2>1, <2>2 DEF SshInv, SshType, ChangeShape, Under, NotYetIn, Withdrawn, Enabling
  <2>4. BlockSteps'
    BY <1>1, <2>1, <2>2 DEF SshInv, BlockSteps, Under, NotYetIn, Withdrawn, Enabling
  <2>5. TextSteps'
    BY <1>1, <2>1, <2>2 DEF SshInv, TextSteps, Under, NotYetIn, Withdrawn
  <2>6. ~others => Alone'
    BY <1>1, <2>1, <2>2 DEF SshInv, Alone, AsFound, Under, NotYetIn, Withdrawn, Enabling
  <2> QED
    BY <1>1, <2>3, <2>4, <2>5, <2>6 DEF SshInv
<1>3. CASE Ssh!GoOn("undo")
  <2>1. /\ DOMAIN change' = DOMAIN change /\ change'.at = "undo" /\ change'.wanted = change.wanted
        /\ change'.made = change.made /\ change'.found = change.found
        /\ change'.original = change.original /\ Ssh!Candidate' = Ssh!Candidate
    BY <1>1, <1>3, RunGoesOn DEF Ssh!GoOn, SshInv, Under
  <2>2. SshType'
    BY <1>1, <2>1 DEF SshInv, SshType, ChangeShape, Under, NotYetIn, Withdrawn, Enabling
  <2>3. BlockSteps'
    BY <1>1, <2>1 DEF SshInv, BlockSteps, Under, NotYetIn, Withdrawn, Enabling
  <2>4. TextSteps'
    BY <1>1, <2>1 DEF SshInv, TextSteps, Under, NotYetIn, Withdrawn
  <2>5. ~others => Alone'
    BY <1>1, <2>1 DEF SshInv, Alone, AsFound, Under, NotYetIn, Withdrawn, Enabling
  <2> QED
    BY <1>1, <2>2, <2>3, <2>4, <2>5 DEF SshInv
<1> QED
  BY <1>2, <1>3 DEF Ssh!CheckConfig

LEMMA RenameConfigKeeps == SshInv /\ Ssh!RenameConfig => SshInv'
<1> SUFFICES ASSUME SshInv, Ssh!RenameConfig PROVE SshInv'
  OBVIOUS
<1>1. UNCHANGED <<fragment, edits, meddled, raced, others>> /\ change.at = "rename" /\ sshConfig' = Ssh!Candidate
  BY DEF Ssh!RenameConfig
<1>2. /\ change.original \in SshFile /\ change.wanted \in {"Enabled", "Disabled"} /\ sshConfig \in SshFile
  BY <1>1 DEF SshInv, SshType, ChangeShape, Under, NotYetIn
<1>3. /\ Ssh!Candidate \in SshFile /\ Ssh!Candidate.text = change.original.text /\ Ssh!Candidate.bad = change.original.bad
      /\ Ssh!Candidate.include = change.original.include
      /\ Ssh!Candidate.block = IF change.wanted = "Enabled" THEN "whole" ELSE "none"
  BY <1>2 DEF Ssh!Candidate, SshFile, Ssh!Blocks
<1>4. sshConfig'.text = edits \/ raced
  BY <1>1, <1>3 DEF SshInv, TextSteps, Under
<1>7. ~others => Sane(change.found.block, change.found.fragment)
  BY <1>1 DEF SshInv, Alone, Under
<1>5. CASE change.wanted = "Enabled" /\ Ssh!GoOn("inspect")
  <2>1. /\ DOMAIN change' = DOMAIN change /\ change'.at = "inspect" /\ change'.wanted = change.wanted
        /\ change'.made = change.made /\ change'.found = change.found
        /\ change'.original = change.original /\ Ssh!Candidate' = Ssh!Candidate
    BY <1>1, <1>5, RunGoesOn DEF Ssh!GoOn, SshInv, Under
  <2>2. SshType'
    BY <1>1, <1>3, <1>5, <2>1 DEF SshInv, SshType, ChangeShape, Under, NotYetIn, Withdrawn, Enabling
  <2>3. BlockSteps'
    BY <1>1, <1>5, <2>1 DEF SshInv, BlockSteps, Under, NotYetIn, Withdrawn, Enabling
  <2>4. TextSteps'
    BY <1>1, <1>4, <2>1 DEF TextSteps, Under
  <2>5. ~others => ~sshConfig'.bad /\ sshConfig'.block = "whole" /\ fragment' = "ours"
    BY <1>1, <1>3, <1>5 DEF SshInv, Alone, Under, NotYetIn, Enabling
  <2>6. ~others => Alone'
    BY <1>1, <1>5, <1>7, <2>1, <2>5 DEF Alone, Under, NotYetIn, Withdrawn, Ssh!Validated, Ssh!InspectState, Ssh!SshAccepts
  <2> QED
    BY <1>1, <2>2, <2>3, <2>4, <2>6 DEF SshInv
<1>6. CASE change.wanted # "Enabled" /\ Ssh!GoOn("unlink")
  <2>1. /\ DOMAIN change' = DOMAIN change /\ change'.at = "unlink" /\ change'.wanted = change.wanted
        /\ change'.made = change.made /\ change'.found = change.found
        /\ change'.original = change.original /\ Ssh!Candidate' = Ssh!Candidate
    BY <1>1, <1>6, RunGoesOn DEF Ssh!GoOn, SshInv, Under
  <2>2. SshType'
    BY <1>1, <1>2, <1>3, <1>6, <2>1 DEF SshInv, SshType, ChangeShape, Under, NotYetIn, Withdrawn, Enabling
  <2>3. BlockSteps'
    BY <1>1, <1>3, <1>6, <2>1 DEF SshInv, BlockSteps, Under, NotYetIn, Withdrawn, Enabling
  <2>4. TextSteps'
    BY <1>1, <1>4, <2>1 DEF TextSteps, Under
  <2>5. ~change.made
    BY <1>1, <1>6 DEF SshInv, SshType, ChangeShape, Under, Enabling
  <2>6. ~others => /\ AsFound(change.original) /\ fragment = "ours" /\ ~change.original.include
    BY <1>1, <1>6, <2>5 DEF SshInv, Alone, AsFound, Under, NotYetIn, Enabling
  <2>7. ~others => Alone'
    BY <1>1, <1>3, <1>7, <2>1, <2>6 DEF Alone, AsFound, Under, NotYetIn, Withdrawn
  <2> QED
    BY <1>1, <2>2, <2>3, <2>4, <2>7 DEF SshInv
<1> QED
  BY <1>5, <1>6 DEF Ssh!RenameConfig

LEMMA UndoFragmentKeeps == SshInv /\ Ssh!UndoFragment => SshInv'
<1> SUFFICES ASSUME SshInv, Ssh!UndoFragment PROVE SshInv'
  OBVIOUS
<1>1. UNCHANGED <<sshConfig, edits, meddled, raced, others>> /\ change.at = "undo" /\ Ssh!Fail
  BY DEF Ssh!UndoFragment
<1>2. fragment' = IF change.made /\ fragment = "ours" THEN "none" ELSE fragment
  BY DEF Ssh!UndoFragment
<1>3. change.made => sshConfig.block # "whole"
  BY <1>1 DEF SshInv, SshType, ChangeShape, BlockSteps, Under, NotYetIn
<1>4. ~others => sshConfig.block = change.found.block /\ fragment' = change.found.fragment
  BY <1>1, <1>2 DEF SshInv, Alone, Under, NotYetIn
<1> QED
  BY <1>1, <1>2, <1>3, <1>4, FailureKeeps DEF SshInv, SshType, BlockSteps, TextSteps, Under

LEMMA RemoveFragmentKeeps == SshInv /\ Ssh!RemoveFragment => SshInv'
<1> SUFFICES ASSUME SshInv, Ssh!RemoveFragment PROVE SshInv'
  OBVIOUS
<1>1. UNCHANGED <<sshConfig, edits, meddled, raced, others>> /\ change.at = "unlink"
  BY DEF Ssh!RemoveFragment
<1>2. change.wanted = "Disabled"
  BY <1>1 DEF SshInv, SshType, ChangeShape, Under, Withdrawn, Enabling
<1>3. ~others => sshConfig = Ssh!Candidate /\ sshConfig.block = "none" /\ fragment = "ours" /\ ~sshConfig.include
  <2>1. change.original \in SshFile
    BY <1>1 DEF SshInv, SshType, ChangeShape, Under, Withdrawn
  <2>2. Ssh!Candidate.block = "none"
    BY <1>2, <2>1 DEF Ssh!Candidate, SshFile
  <2> QED
    BY <1>1, <2>2 DEF SshInv, Alone, Under, Withdrawn
<1>4. ~others => ~change.original.include
  <2>1. change.original \in SshFile
    BY <1>1 DEF SshInv, SshType, ChangeShape, Under, Withdrawn
  <2>2. Ssh!Candidate.include = change.original.include
    BY <2>1 DEF Ssh!Candidate, SshFile
  <2> QED
    BY <1>3, <2>2
<1>7. ~others => Sane(change.found.block, change.found.fragment)
  BY <1>1 DEF SshInv, Alone, Under
<1>5. CASE /\ Ssh!GoOn("inspect")
           /\ (change.original.include /\ UNCHANGED fragment) \/ (~change.original.include /\ fragment' = "none")
  <2>1. /\ DOMAIN change' = DOMAIN change /\ change'.at = "inspect" /\ change'.wanted = change.wanted
        /\ change'.made = change.made /\ change'.found = change.found
        /\ change'.original = change.original /\ Ssh!Candidate' = Ssh!Candidate
    BY <1>1, <1>5, RunGoesOn DEF Ssh!GoOn, SshInv, Under
  <2>2. SshType'
    BY <1>1, <1>5, <2>1 DEF SshInv, SshType, ChangeShape, Under, NotYetIn, Withdrawn, Enabling
  <2>3. BlockSteps'
    BY <1>1, <1>5, <2>1 DEF SshInv, BlockSteps, Under, NotYetIn, Withdrawn, Enabling
  <2>4. TextSteps'
    BY <1>1, <2>1 DEF SshInv, TextSteps, Under
  <2>5. ~others => fragment' = "none" /\ sshConfig'.block = "none"
    BY <1>1, <1>3, <1>4, <1>5
  <2>6. ~others => Alone'
    BY <1>1, <1>2, <1>7, <2>1, <2>5 DEF Alone, Under, NotYetIn, Withdrawn, Ssh!Validated, Ssh!InspectState
  <2> QED
    BY <1>1, <2>2, <2>3, <2>4, <2>6 DEF SshInv
<1>6. CASE fragment = "foreign" /\ Ssh!GoOn("rollback") /\ UNCHANGED fragment
  <2>1. /\ DOMAIN change' = DOMAIN change /\ change'.at = "rollback" /\ change'.wanted = change.wanted
        /\ change'.made = change.made /\ change'.found = change.found
        /\ change'.original = change.original /\ Ssh!Candidate' = Ssh!Candidate
    BY <1>1, <1>6, RunGoesOn DEF Ssh!GoOn, SshInv, Under
  <2>2. SshType'
    BY <1>1, <1>6, <2>1 DEF SshInv, SshType, ChangeShape, Under, NotYetIn, Withdrawn, Enabling
  <2>3. BlockSteps'
    BY <1>1, <1>6, <2>1 DEF SshInv, BlockSteps, Under, NotYetIn, Withdrawn, Enabling
  <2>4. TextSteps'
    BY <1>1, <1>6, <2>1 DEF SshInv, TextSteps, Under, NotYetIn, Withdrawn
  <2>5. ~others => Alone'
    BY <1>1, <1>6, <1>7, <2>1 DEF SshInv, Alone, AsFound, Under, NotYetIn, Withdrawn, Enabling
  <2> QED
    BY <1>1, <2>2, <2>3, <2>4, <2>5 DEF SshInv
<1> QED
  BY <1>5, <1>6 DEF Ssh!RemoveFragment

LEMMA RollbackConfigKeeps == SshInv /\ Ssh!RollbackConfig => SshInv'
<1> SUFFICES ASSUME SshInv, Ssh!RollbackConfig PROVE SshInv'
  OBVIOUS
<1>1. UNCHANGED <<sshConfig, fragment, edits, meddled, raced, others>> /\ change.at = "rollback"
  BY DEF Ssh!RollbackConfig
<1>2. CASE sshConfig = Ssh!Candidate /\ Ssh!GoOn("restore")
  <2>1. /\ DOMAIN change' = DOMAIN change /\ change'.at = "restore" /\ change'.wanted = change.wanted
        /\ change'.made = change.made /\ change'.found = change.found
        /\ change'.original = change.original /\ Ssh!Candidate' = Ssh!Candidate
    BY <1>1, <1>2, RunGoesOn DEF Ssh!GoOn, SshInv, Under
  <2>2. SshType'
    BY <1>1, <1>2, <2>1 DEF SshInv, SshType, ChangeShape, Under, NotYetIn, Withdrawn, Enabling
  <2>3. BlockSteps'
    BY <1>1, <1>2, <2>1 DEF SshInv, BlockSteps, Under, NotYetIn, Withdrawn, Enabling
  <2>4. TextSteps'
    BY <1>1, <1>2, <2>1 DEF SshInv, TextSteps, Under, NotYetIn, Withdrawn
  <2>5. ~others => Alone'
    BY <1>1, <1>2, <2>1 DEF SshInv, Alone, AsFound, Under, NotYetIn, Withdrawn, Enabling
  <2> QED
    BY <1>1, <2>2, <2>3, <2>4, <2>5 DEF SshInv
<1>3. CASE sshConfig # Ssh!Candidate /\ Ssh!Fail
  <2>1. others
    BY <1>1, <1>3 DEF SshInv, SshType, Alone, Under, Withdrawn
  <2> QED
    BY <1>1, <1>3, <2>1, FailureKeeps DEF SshInv, SshType, BlockSteps, TextSteps, Under
<1> QED
  BY <1>2, <1>3 DEF Ssh!RollbackConfig

LEMMA RestoreConfigKeeps == SshInv /\ Ssh!RestoreConfig => SshInv'
<1> SUFFICES ASSUME SshInv, Ssh!RestoreConfig PROVE SshInv'
  OBVIOUS
<1>1. UNCHANGED <<fragment, edits, meddled, raced, others>> /\ change.at = "restore" /\ Ssh!Fail /\ sshConfig' = change.original
  BY DEF Ssh!RestoreConfig
<1>2. change.original \in SshFile
  BY <1>1 DEF SshInv, SshType, ChangeShape, Under, Withdrawn
<1>3. Ssh!Candidate.text = change.original.text
  BY <1>2 DEF Ssh!Candidate, SshFile
<1>4. sshConfig'.text = edits \/ raced
  BY <1>1, <1>3 DEF SshInv, TextSteps, Under
<1>5. fragment = "ours" \/ meddled
  BY <1>1 DEF SshInv, BlockSteps, Under
<1>6. ~others => sshConfig'.block = change.found.block /\ fragment = change.found.fragment
  BY <1>1 DEF SshInv, Alone, AsFound, Under, Withdrawn
<1> QED
  BY <1>1, <1>2, <1>4, <1>5, <1>6, FailureKeeps DEF SshInv, SshType, BlockSteps, Under

LEMMA CallFailsKeeps == SshInv /\ Ssh!CallFails => SshInv'
<1> SUFFICES ASSUME SshInv, Ssh!CallFails PROVE SshInv'
  OBVIOUS
<1>1. UNCHANGED <<sshConfig, fragment, edits, meddled, raced, others>>
  BY DEF Ssh!CallFails
<1>2. CASE change.at \in {"read", "fragment"} /\ Ssh!Fail
  <2>1. ~others => sshConfig.block = change.found.block /\ fragment = change.found.fragment
    BY <1>2 DEF SshInv, SshType, ChangeShape, Alone, AsFound, Under, NotYetIn
  <2> QED
    BY <1>1, <1>2, <2>1, FailureKeeps DEF SshInv, SshType, BlockSteps, TextSteps, Under
<1>3. CASE change.at \in {"check", "rename"} /\ Ssh!GoOn("undo")
  <2>1. /\ DOMAIN change' = DOMAIN change /\ change'.at = "undo" /\ change'.wanted = change.wanted
        /\ change'.made = change.made /\ change'.found = change.found
        /\ change'.original = change.original /\ Ssh!Candidate' = Ssh!Candidate
    BY <1>1, <1>3, RunGoesOn DEF Ssh!GoOn, SshInv, Under
  <2>2. SshType'
    BY <1>1, <1>3, <2>1 DEF SshInv, SshType, ChangeShape, Under, NotYetIn, Withdrawn, Enabling
  <2>3. BlockSteps'
    BY <1>1, <1>3, <2>1 DEF SshInv, BlockSteps, Under, NotYetIn, Withdrawn, Enabling
  <2>4. TextSteps'
    BY <1>1, <1>3, <2>1 DEF SshInv, TextSteps, Under, NotYetIn, Withdrawn
  <2>5. ~others => Alone'
    BY <1>1, <1>3, <2>1 DEF SshInv, Alone, AsFound, Under, NotYetIn, Withdrawn, Enabling
  <2> QED
    BY <1>1, <2>2, <2>3, <2>4, <2>5 DEF SshInv
<1>4. CASE change.at = "unlink" /\ Ssh!GoOn("rollback")
  <2>1. /\ DOMAIN change' = DOMAIN change /\ change'.at = "rollback" /\ change'.wanted = change.wanted
        /\ change'.made = change.made /\ change'.found = change.found
        /\ change'.original = change.original /\ Ssh!Candidate' = Ssh!Candidate
    BY <1>1, <1>4, RunGoesOn DEF Ssh!GoOn, SshInv, Under
  <2>2. SshType'
    BY <1>1, <1>4, <2>1 DEF SshInv, SshType, ChangeShape, Under, NotYetIn, Withdrawn, Enabling
  <2>3. BlockSteps'
    BY <1>1, <1>4, <2>1 DEF SshInv, SshType, BlockSteps, Under, NotYetIn, Withdrawn, Enabling
  <2>4. TextSteps'
    BY <1>1, <1>4, <2>1 DEF SshInv, TextSteps, Under, NotYetIn, Withdrawn
  <2>5. ~others => Alone'
    BY <1>1, <1>4, <2>1 DEF SshInv, Alone, AsFound, Under, NotYetIn, Withdrawn, Enabling
  <2> QED
    BY <1>1, <2>2, <2>3, <2>4, <2>5 DEF SshInv
<1>5. CASE change.at = "undo" /\ change.made /\ Ssh!FailAs(FALSE)
  <2>1. ~others => fragment = "ours" /\ sshConfig.block = "none"
    BY <1>5 DEF SshInv, Alone, Sane, Under, NotYetIn
  <2>2. ~others => Sane(sshConfig.block, fragment)
    BY <2>1 DEF Sane
  <2> QED
    BY <1>1, <1>5, <2>2, FailureLeaves DEF SshInv, SshType, BlockSteps, TextSteps, Under
<1>6. CASE change.at \in {"rollback", "restore"} /\ Ssh!FailAs(FALSE)
  <2>1. change.original \in SshFile /\ change.wanted # "Enabled"
    BY <1>6 DEF SshInv, SshType, ChangeShape, Under, Withdrawn, Enabling
  <2>2. Ssh!Candidate.block = "none"
    BY <2>1 DEF Ssh!Candidate, SshFile
  <2>3. ~others => Sane(sshConfig.block, fragment)
    BY <1>6, <2>2 DEF SshInv, Alone, Sane, Under, Withdrawn
  <2> QED
    BY <1>1, <1>6, <2>3, FailureLeaves DEF SshInv, SshType, BlockSteps, TextSteps, Under
<1>7. CASE change.at = "inspect" /\ Ssh!FailAs(FALSE)
  <2>1. change.wanted \in {"Enabled", "Disabled"}
    BY <1>7 DEF SshInv, SshType, ChangeShape, Under
  <2>2. ~others => sshConfig.include \/ Ssh!InspectState(sshConfig, fragment) = change.wanted
    BY <1>7, <2>1 DEF SshInv, Alone, Under, Ssh!Validated
  <2>3. ~others => sshConfig.include \/ Sane(sshConfig.block, fragment)
    BY <2>1, <2>2 DEF Sane, Ssh!InspectState
  <2> QED
    BY <1>1, <1>7, <2>3, FailureLeaves DEF SshInv, SshType, BlockSteps, TextSteps, Under
<1> QED
  BY <1>2, <1>3, <1>4, <1>5, <1>6, <1>7 DEF Ssh!CallFails

LEMMA InspectAgainKeeps == SshInv /\ Ssh!InspectAgain => SshInv'
<1> SUFFICES ASSUME SshInv, Ssh!InspectAgain PROVE SshInv'
  OBVIOUS
<1>1. UNCHANGED <<sshConfig, fragment, edits, meddled, raced, others>> /\ change.at = "inspect"
  BY DEF Ssh!InspectAgain
<1>2. CASE change' = Ssh!NoChange
  <2>1. change'.at = "idle" /\ "at" \in DOMAIN change'
    BY <1>2 DEF Ssh!NoChange
  <2> QED
    BY <1>1, <2>1 DEF SshInv, SshType, ChangeShape, BlockSteps, TextSteps, Alone, Under, NotYetIn, Withdrawn
<1>3. CASE Ssh!Validated(Ssh!InspectState(sshConfig, fragment)) # change.wanted /\ Ssh!Fail
  <2>1. ~others => sshConfig.include
    BY <1>1, <1>3 DEF SshInv, SshType, Alone, Under
  <2> QED
    BY <1>1, <1>3, <2>1, FailureKeeps DEF SshInv, SshType, BlockSteps, TextSteps, Under
<1> QED
  BY <1>2, <1>3 DEF Ssh!InspectAgain

LEMMA EditConfigKeeps == SshInv /\ Ssh!EditConfig => SshInv'
<1> SUFFICES ASSUME SshInv, Ssh!EditConfig PROVE SshInv'
  OBVIOUS
<1>1. UNCHANGED <<fragment, change, meddled>> /\ others' = TRUE /\ edits' = edits + 1 /\ edits \in Nat
  BY DEF Ssh!EditConfig, SshInv, SshType
<1>2. raced' \in BOOLEAN /\ (raced \/ Under({"rename", "restore"}) => raced')
  BY DEF Ssh!EditConfig, SshInv, SshType, Under
<1>3. sshConfig' \in SshFile /\ sshConfig'.text = edits' /\ (sshConfig'.block = "whole" => sshConfig.block = "whole")
  BY <1>1 DEF Ssh!EditConfig, SshFile
<1>4. SshType'
  BY <1>1, <1>2, <1>3 DEF SshInv, SshType, ChangeShape, Under, Enabling
<1>5. BlockSteps' /\ TextSteps'
  BY <1>1, <1>2, <1>3 DEF SshInv, BlockSteps, TextSteps, Under, Enabling
<1> QED
  BY <1>1, <1>4, <1>5 DEF SshInv

LEMMA EditFragmentKeeps == SshInv /\ Ssh!EditFragment => SshInv'
<1> SUFFICES ASSUME SshInv, Ssh!EditFragment PROVE SshInv'
  OBVIOUS
<1>1. UNCHANGED <<sshConfig, change, edits, raced>> /\ others' = TRUE /\ meddled' = TRUE /\ fragment' \in {"none", "foreign"}
  BY DEF Ssh!EditFragment
<1>2. SshType'
  BY <1>1 DEF SshInv, SshType, ChangeShape, Under, Enabling
<1>3. BlockSteps' /\ TextSteps'
  BY <1>1 DEF SshInv, BlockSteps, TextSteps, Under, Enabling, Ssh!Candidate
<1> QED
  BY <1>1, <1>2, <1>3 DEF SshInv

LEMMA ApplicationDiesKeeps == SshInv /\ Ssh!ApplicationDies => SshInv'
<1> SUFFICES ASSUME SshInv, Ssh!ApplicationDies PROVE SshInv'
  OBVIOUS
<1>1. UNCHANGED <<sshConfig, fragment, edits, meddled, raced, others>> /\ change'.at = "idle" /\ "at" \in DOMAIN change'
  BY DEF Ssh!ApplicationDies, Ssh!NoChange
<1> QED
  BY <1>1 DEF SshInv, SshType, ChangeShape, BlockSteps, TextSteps, Alone, Under, NotYetIn, Withdrawn

LEMMA SshKeeps == SshInv /\ Ssh!Next => SshInv'
BY ShowSwitchKeeps, SetEnabledKeeps, ReadToEnableKeeps, CreateFragmentKeeps, CheckConfigKeeps, RenameConfigKeeps,
   UndoFragmentKeeps, ReadToDisableKeeps, RemoveFragmentKeeps, RollbackConfigKeeps, RestoreConfigKeeps,
   CallFailsKeeps, InspectAgainKeeps, EditConfigKeeps, EditFragmentKeeps, ApplicationDiesKeeps
   DEF Ssh!Next

\* While the switch of the SSH configuration is not what runs, nothing of it changes.
SshBeside == program = "ssh persistence" => SshInv

LEMMA SshBesideHolds == ProgramSpec => []SshBeside
<1>1. ProgramInit => SshBeside
  BY SshStarts DEF ProgramInit, SshBeside
<1>2. SshBeside /\ [ProgramNext]_programVars => SshBeside'
  <2> SUFFICES ASSUME SshBeside, [ProgramNext]_programVars PROVE SshBeside'
    OBVIOUS
  <2>1. CASE ProgramNext
    <3>1. program' = program /\ (program = "ssh persistence" => Ssh!Next)
      BY <2>1 DEF ProgramNext
    <3> QED
      BY <3>1, SshKeeps DEF SshBeside
  <2>2. CASE UNCHANGED programVars
    <3>1. program' = program /\ UNCHANGED ofSsh
      BY <2>2 DEF programVars
    <3> QED
      BY <3>1, SshRests DEF SshBeside
  <2> QED
    BY <2>1, <2>2
<1> QED
  BY <1>1, <1>2, PTL DEF ProgramSpec

(*****************************************************************************)
(* The SSH keys in the devices, and Git's settings (ResidentKeys).           *)
(*****************************************************************************)
Answered == {"nothing", "not created", "not deleted", "created", "deleted", "created, do not retry",
             "inspect, do not retry", "unknown, do not retry", "loaded", "not loaded", "git set", "git unchanged"}
\* Said without a look at the credentials.
Unlooked == {"no answer", "git torn"}
GitSettings == [format : {"unset", "ssh"}, key : Nat, commits : {"unset", "true", "false"}, tags : {"unset", "true", "false"}]
DeviceCalls ==
  [op : {"None", "Inspect", "Create", "Delete", "Load", "Git"}, at : 0 .. 5, base : [Keys -> SUBSET Nat],
   moved : BOOLEAN, listed : SUBSET Nat, cred : Nat, ok : BOOLEAN, files : BOOLEAN,
   old : GitSettings, new : GitSettings, failed : BOOLEAN]

ResidentType ==
  /\ seat \in Keys \cup {Resident!Nobody} /\ created \in Nat /\ resident \in [Keys -> SUBSET (1 .. created)]
  /\ results.found \subseteq 1 .. created /\ git \in GitSettings /\ job \in DeviceCalls

\* No credential is in two keys.
Distinct == \A k, l \in Keys : k # l => resident[k] \cap resident[l] = {}

OnStep(some) == job.at \in some
CallShape ==
  /\ job.op = "None" => job = Resident!NoJob
  /\ job.op # "None" => told = Resident!Nothing
  /\ job.op \in {"Inspect", "Load"} => OnStep({1})
  /\ job.op \in {"Create", "Delete"} => OnStep({1, 2, 3})
  /\ job.op = "Git" => OnStep({1, 2, 3, 4, 5})
  /\ job.op \in {"Create", "Delete"} /\ OnStep({1, 2}) => resident = job.base

CreateSteps ==
  job.op = "Create" /\ ~job.moved =>
    /\ OnStep({2, 3}) => seat \in Keys
    /\ OnStep({2}) => job.listed = resident[seat]
    /\ OnStep({3}) => \/ resident = job.base /\ ~job.ok /\ resident[seat] = job.listed
                      \/ resident # job.base /\ created \notin job.listed /\ resident[seat] = job.listed \cup {created}

DeleteSteps ==
  job.op = "Delete" =>
    /\ \A k \in Keys : job.base[k] \ {job.cred} \subseteq resident[k]
    /\ OnStep({2, 3}) /\ ~job.moved => seat \in Keys /\ \A k \in Keys \ {seat} : job.cred \notin resident[k]
    /\ OnStep({3}) /\ ~job.moved => resident = job.base \/ job.cred \notin resident[seat]

Target == IF job.failed THEN job.old ELSE job.new
GitSteps ==
  job.op = "Git" =>
    /\ job.at > 1 => git.format = Target.format
    /\ job.at > 2 => git.key = Target.key
    /\ job.at > 3 => git.commits = Target.commits
    /\ job.at > 4 => git.tags = Target.tags

ResidentInv ==
  /\ ResidentType /\ Distinct /\ CallShape /\ CreateSteps /\ DeleteSteps /\ GitSteps
  /\ Resident!AnswersAreTrue /\ Resident!SelectionIsWhole

LEMMA ResidentThen == ResidentInv => Resident!ResidentKeysAreHonest
BY DEF ResidentInv, DeleteSteps, Resident!ResidentKeysAreHonest, Resident!OnlyNamedIsDeleted

LEMMA KeysAreNumbers == ResidentType => resident \in [Keys -> SUBSET Nat] /\ results.found \subseteq Nat /\ Resident!Listing \subseteq 1 .. created
<1> SUFFICES ASSUME ResidentType
    PROVE resident \in [Keys -> SUBSET Nat] /\ results.found \subseteq Nat /\ Resident!Listing \subseteq 1 .. created
  OBVIOUS
<1>1. 1 .. created \subseteq Nat
  BY DEF ResidentType
<1>2. SUBSET (1 .. created) \subseteq SUBSET Nat
  BY <1>1
<1> QED
  BY <1>1, <1>2 DEF ResidentType, Resident!Listing

LEMMA NoJobFits ==
  /\ Resident!NoJob \in DeviceCalls /\ Resident!NoJob.op = "None" /\ Resident!Unset \in GitSettings
  /\ Resident!Nothing.what = "nothing" /\ Resident!Nothing.sure = FALSE
<1>1. Resident!Unset \in GitSettings
  BY DEF Resident!Unset, GitSettings
<1>2. [k \in Keys |-> {}] \in [Keys -> SUBSET Nat]
  OBVIOUS
<1> QED
  BY <1>1, <1>2 DEF Resident!NoJob, DeviceCalls, Resident!Nothing

LEMMA Untold == told' = Resident!Nothing => Resident!AnswersAreTrue' /\ Resident!SelectionIsWhole'
BY NoJobFits DEF Resident!AnswersAreTrue, Resident!SelectionIsWhole

LEMMA ResidentStarts == Resident!Init => ResidentInv
<1> SUFFICES ASSUME Resident!Init PROVE ResidentInv
  OBVIOUS
<1>1. seat \in Keys /\ created = 1 /\ job = Resident!NoJob /\ told = Resident!Nothing /\ results.found = {}
  BY DEF Resident!Init, Resident!Unlisted
<1>2. git \in GitSettings
  BY NoJobFits DEF Resident!Init, GitSettings
<1>3. resident = [k \in Keys |-> IF k = seat THEN {1} ELSE {}]
  BY DEF Resident!Init
<1>4. resident \in [Keys -> SUBSET (1 .. created)]
  BY <1>1, <1>3
<1>5. ResidentType
  BY <1>1, <1>2, <1>4, NoJobFits DEF ResidentType
<1>6. Distinct
  BY <1>3 DEF Distinct
<1>7. Resident!AnswersAreTrue /\ Resident!SelectionIsWhole
  BY <1>1, NoJobFits DEF Resident!AnswersAreTrue, Resident!SelectionIsWhole
<1> QED
  BY <1>1, <1>5, <1>6, <1>7, NoJobFits DEF ResidentInv, CallShape, CreateSteps, DeleteSteps, GitSteps

\* What the last call said does not depend on who is in the port or in the agent.
LEMMA SayingStays ==
  ASSUME ResidentInv, UNCHANGED <<resident, created, git, told>>
  PROVE  Resident!AnswersAreTrue' /\ Resident!SelectionIsWhole'
BY DEF ResidentInv, Resident!AnswersAreTrue, Resident!SelectionIsWhole, Resident!Stored

LEMMA ResidentRests == ResidentInv /\ UNCHANGED ofResident => ResidentInv'
<1> SUFFICES ASSUME ResidentInv, UNCHANGED ofResident PROVE ResidentInv'
  OBVIOUS
<1>1. UNCHANGED <<seat, resident, created, results, git, job, told>>
  BY DEF ofResident
<1>2. ResidentType' /\ Distinct' /\ CallShape'
  BY <1>1 DEF ResidentInv, ResidentType, Distinct, CallShape, OnStep
<1>3. CreateSteps' /\ DeleteSteps' /\ GitSteps'
  BY <1>1 DEF ResidentInv, CreateSteps, DeleteSteps, GitSteps, OnStep, Target
<1> QED
  BY <1>1, <1>2, <1>3, SayingStays DEF ResidentInv

\* What a call is when it begins, when it goes on and when it is over.
LEMMA BegunFits ==
  ASSUME ResidentType, NEW o \in {"Inspect", "Create", "Delete", "Load", "Git"}
  PROVE  /\ Resident!Begun(o) \in DeviceCalls /\ Resident!Begun(o).op = o /\ Resident!Begun(o).at = 1
         /\ Resident!Begun(o).base = resident /\ Resident!Begun(o).moved = FALSE /\ Resident!Begun(o).failed = FALSE
<1>1. Resident!NoJob.moved = FALSE /\ Resident!NoJob.failed = FALSE
  BY DEF Resident!NoJob
<1>2. resident \in [Keys -> SUBSET Nat] /\ 1 \in 0 .. 5 /\ o \in {"None", "Inspect", "Create", "Delete", "Load", "Git"}
  BY KeysAreNumbers
<1> DEFINE z == Resident!NoJob
<1>3. z \in DeviceCalls /\ z.moved = FALSE /\ z.failed = FALSE
  BY <1>1, NoJobFits
<1> HIDE DEF z
<1>4. [z EXCEPT !.op = o, !.at = 1, !.base = resident] \in DeviceCalls
  BY <1>2, <1>3 DEF DeviceCalls
<1>5. /\ [z EXCEPT !.op = o, !.at = 1, !.base = resident].op = o /\ [z EXCEPT !.op = o, !.at = 1, !.base = resident].at = 1
      /\ [z EXCEPT !.op = o, !.at = 1, !.base = resident].base = resident
      /\ [z EXCEPT !.op = o, !.at = 1, !.base = resident].moved = FALSE
      /\ [z EXCEPT !.op = o, !.at = 1, !.base = resident].failed = FALSE
  BY <1>3 DEF DeviceCalls
<1> QED
  BY <1>4, <1>5 DEF Resident!Begun, z

LEMMA GoesOn ==
  ASSUME NEW x \in DeviceCalls, x.at < 5, job' = [x EXCEPT !.at = @ + 1]
  PROVE  /\ job' \in DeviceCalls /\ job'.at = x.at + 1 /\ job'.op = x.op /\ job'.base = x.base /\ job'.moved = x.moved
         /\ job'.listed = x.listed /\ job'.cred = x.cred /\ job'.ok = x.ok /\ job'.old = x.old /\ job'.new = x.new
         /\ job'.failed = x.failed
BY DEF DeviceCalls

LEMMA CallBegins ==
  ASSUME ResidentInv, UNCHANGED <<seat, resident, created, results, agent, git>>, told' = Resident!Nothing,
         job' \in DeviceCalls, job'.op # "None", job'.at = 1, job'.base = resident
  PROVE  ResidentInv'
<1>1. ResidentType' /\ Distinct'
  BY DEF ResidentInv, ResidentType, Distinct
<1>2. CallShape'
  BY DEF CallShape, OnStep
<1>3. CreateSteps' /\ GitSteps'
  BY DEF CreateSteps, GitSteps, OnStep
<1>4. DeleteSteps'
  BY DEF DeleteSteps, OnStep
<1> QED
  BY <1>1, <1>2, <1>3, <1>4, Untold DEF ResidentInv

LEMMA CallEnds ==
  ASSUME ResidentInv, UNCHANGED <<seat, resident, created, git>>, job' = Resident!NoJob, results'.found \subseteq 1 .. created,
         Resident!AnswersAreTrue', Resident!SelectionIsWhole'
  PROVE  ResidentInv'
<1>1. ResidentType' /\ Distinct'
  BY NoJobFits DEF ResidentInv, ResidentType, Distinct
<1> QED
  BY <1>1, NoJobFits DEF ResidentInv, CallShape, CreateSteps, DeleteSteps, GitSteps

LEMMA InspectDeviceKeeps == ResidentInv /\ Resident!InspectDevice => ResidentInv'
BY BegunFits, CallBegins DEF Resident!InspectDevice, Resident!Begin, ResidentInv

LEMMA CreateKeyKeeps == ResidentInv /\ Resident!CreateKey => ResidentInv'
BY BegunFits, CallBegins DEF Resident!CreateKey, Resident!Begin, ResidentInv

LEMMA DeleteKeyKeeps == ResidentInv /\ Resident!DeleteKey => ResidentInv'
<1> SUFFICES ASSUME ResidentInv, Resident!DeleteKey PROVE ResidentInv'
  OBVIOUS
<1>1. PICK c \in results.found : job' = [Resident!Begun("Delete") EXCEPT !.cred = c] /\ told' = Resident!Nothing
  BY DEF Resident!DeleteKey, Resident!Begin
<1>2. c \in Nat
  BY <1>1, KeysAreNumbers DEF ResidentInv
<1>3. job' \in DeviceCalls /\ job'.op = "Delete" /\ job'.at = 1 /\ job'.base = resident
  BY <1>1, <1>2, BegunFits DEF ResidentInv, DeviceCalls
<1> QED
  BY <1>1, <1>3, CallBegins DEF Resident!DeleteKey

LEMMA LoadKeysKeeps == ResidentInv /\ Resident!LoadKeys => ResidentInv'
<1> SUFFICES ASSUME ResidentInv, Resident!LoadKeys PROVE ResidentInv'
  OBVIOUS
<1>1. job' = [Resident!Begun("Load") EXCEPT !.listed = results.found] /\ told' = Resident!Nothing
  BY DEF Resident!LoadKeys, Resident!Begin
<1>2. results.found \in SUBSET Nat
  BY KeysAreNumbers DEF ResidentInv
<1>3. job' \in DeviceCalls /\ job'.op = "Load" /\ job'.at = 1 /\ job'.base = resident
  BY <1>1, <1>2, BegunFits DEF ResidentInv, DeviceCalls
<1> QED
  BY <1>1, <1>3, CallBegins DEF Resident!LoadKeys

LEMMA SelectKeyKeeps == ResidentInv /\ Resident!SelectKey => ResidentInv'
<1> SUFFICES ASSUME ResidentInv, Resident!SelectKey PROVE ResidentInv'
  OBVIOUS
<1> DEFINE asFor(c) == [format |-> "ssh", key |-> c, commits |-> "true", tags |-> "false"]
<1>1. PICK c \in results.found :
        job' = [Resident!Begun("Git") EXCEPT !.old = git, !.new = asFor(c)] /\ told' = Resident!Nothing
  BY DEF Resident!SelectKey, Resident!Begin
<1>2. asFor(c) \in GitSettings /\ git \in GitSettings
  BY <1>1, KeysAreNumbers DEF ResidentInv, ResidentType, GitSettings
<1> DEFINE w == asFor(c)
<1>3. job' = [Resident!Begun("Git") EXCEPT !.old = git, !.new = w] /\ w \in GitSettings
  BY <1>1, <1>2
<1> HIDE DEF w
<1>4. job' \in DeviceCalls /\ job'.op = "Git" /\ job'.at = 1 /\ job'.base = resident
  BY <1>2, <1>3, BegunFits DEF ResidentInv, DeviceCalls
<1> QED
  BY <1>1, <1>4, CallBegins DEF Resident!SelectKey

LEMMA DisableSigningKeeps == ResidentInv /\ Resident!DisableSigning => ResidentInv'
<1> SUFFICES ASSUME ResidentInv, Resident!DisableSigning PROVE ResidentInv'
  OBVIOUS
<1> DEFINE w == [git EXCEPT !.commits = "false", !.tags = "false"]
<1>1. job' = [Resident!Begun("Git") EXCEPT !.old = git, !.new = w] /\ told' = Resident!Nothing
  BY DEF Resident!DisableSigning, Resident!Begin
<1>2. w \in GitSettings /\ git \in GitSettings
  BY DEF ResidentInv, ResidentType, GitSettings
<1> HIDE DEF w
<1>3. job' \in DeviceCalls /\ job'.op = "Git" /\ job'.at = 1 /\ job'.base = resident
  BY <1>1, <1>2, BegunFits DEF ResidentInv, DeviceCalls
<1> QED
  BY <1>1, <1>3, CallBegins DEF Resident!DisableSigning

LEMMA RemoveFromAgentKeeps == ResidentInv /\ Resident!RemoveFromAgent => ResidentInv'
<1> SUFFICES ASSUME ResidentInv, Resident!RemoveFromAgent PROVE ResidentInv'
  OBVIOUS
<1>1. UNCHANGED <<seat, resident, created, results, git, job, told>>
  BY DEF Resident!RemoveFromAgent
<1>2. ResidentType' /\ Distinct' /\ CallShape'
  BY <1>1 DEF ResidentInv, ResidentType, Distinct, CallShape, OnStep
<1>3. CreateSteps' /\ DeleteSteps' /\ GitSteps'
  BY <1>1 DEF ResidentInv, CreateSteps, DeleteSteps, GitSteps, OnStep, Target
<1> QED
  BY <1>1, <1>2, <1>3, SayingStays DEF ResidentInv

LEMMA SwapKeyKeeps == ResidentInv /\ Resident!SwapKey => ResidentInv'
<1> SUFFICES ASSUME ResidentInv, Resident!SwapKey PROVE ResidentInv'
  OBVIOUS
<1>1. UNCHANGED <<resident, created, results, git, told>> /\ seat' \in Keys \cup {Resident!Nobody}
  BY DEF Resident!SwapKey
<1>2. Resident!AnswersAreTrue' /\ Resident!SelectionIsWhole'
  BY <1>1, SayingStays
<1>3. CASE job = Resident!NoJob /\ job' = job
  <2>1. ResidentType' /\ Distinct'
    BY <1>1, <1>3, NoJobFits DEF ResidentInv, ResidentType, Distinct
  <2> QED
    BY <1>1, <1>2, <1>3, <2>1, NoJobFits DEF ResidentInv, CallShape, CreateSteps, DeleteSteps, GitSteps
<1>4. CASE job # Resident!NoJob /\ job' = [job EXCEPT !.moved = TRUE]
  <2>1. /\ job' \in DeviceCalls /\ job'.moved = TRUE /\ job'.op = job.op /\ job'.at = job.at /\ job'.base = job.base
        /\ job'.cred = job.cred /\ job'.old = job.old /\ job'.new = job.new /\ job'.failed = job.failed
    BY <1>4 DEF ResidentInv, ResidentType, DeviceCalls
  <2>2. ResidentType' /\ Distinct'
    BY <1>1, <2>1 DEF ResidentInv, ResidentType, Distinct
  <2>3. CallShape'
    BY <1>1, <1>4, <2>1 DEF ResidentInv, CallShape, OnStep
  <2>4. CreateSteps' /\ DeleteSteps' /\ GitSteps'
    BY <1>1, <2>1 DEF ResidentInv, CreateSteps, DeleteSteps, GitSteps, OnStep, Target
  <2> QED
    BY <1>2, <2>2, <2>3, <2>4 DEF ResidentInv
<1> QED
  BY <1>3, <1>4 DEF Resident!SwapKey

LEMMA KilledKeeps == ResidentInv /\ Resident!Killed => ResidentInv'
BY CallEnds, Untold DEF Resident!Killed, Resident!Done, Resident!Unlisted

LEMMA EndInspectKeeps == ResidentInv /\ Resident!EndInspect => ResidentInv'
<1> SUFFICES ASSUME ResidentInv, Resident!EndInspect PROVE ResidentInv'
  OBVIOUS
<1>1. results'.found \subseteq 1 .. created
  BY KeysAreNumbers DEF Resident!EndInspect, Resident!Unlisted, ResidentInv
<1> QED
  BY <1>1, CallEnds, Untold DEF Resident!EndInspect, Resident!Done

LEMMA CallRuns ==
  ASSUME ResidentInv, job.op # "None", told' = told
  PROVE  told' = Resident!Nothing /\ Resident!AnswersAreTrue' /\ Resident!SelectionIsWhole'
BY Untold DEF ResidentInv, CallShape

\* An answer about credentials, given while nothing changes any more.
LEMMA AnswerIsTrue ==
  ASSUME ResidentInv, UNCHANGED <<resident, created>>, NEW a \in Answered \ {"git set", "git unchanged"}, NEW c, told' = Resident!Told(a, c),
         ~job.moved /\ a \in {"not created", "not deleted"} => resident = job.base,
         ~job.moved /\ a = "created" => resident # job.base /\ c = created,
         ~job.moved /\ a = "deleted" => \A k \in Keys : c \notin resident[k]
  PROVE  Resident!AnswersAreTrue' /\ Resident!SelectionIsWhole'
<1>1. /\ told'.what = a /\ told'.cred = c /\ told'.changed = (resident # job.base) /\ told'.sure = ~job.moved
  <2> DEFINE t == Resident!Told(a, c)
  <2>1. t.what = a /\ t.cred = c /\ t.changed = (resident # job.base) /\ t.sure = ~job.moved
    BY DEF Resident!Told, Resident!Nothing
  <2>2. told' = t
    OBVIOUS
  <2> HIDE DEF t
  <2> QED
    BY <2>1, <2>2
<1>2. Resident!SelectionIsWhole'
  BY <1>1 DEF Resident!SelectionIsWhole
<1>3. Resident!AnswersAreTrue'
  BY <1>1 DEF Resident!AnswersAreTrue, Resident!Stored
<1> QED
  BY <1>2, <1>3

\* A message that speaks of neither.
LEMMA NothingSaid ==
  ASSUME NEW a \in Unlooked, told' = [Resident!Nothing EXCEPT !.what = a]
  PROVE  Resident!AnswersAreTrue' /\ Resident!SelectionIsWhole'
<1>1. told'.what = a /\ told'.sure = FALSE
  BY DEF Resident!Nothing
<1> QED
  BY <1>1 DEF Unlooked, Resident!AnswersAreTrue, Resident!SelectionIsWhole

LEMMA ListBeforeKeeps == ResidentInv /\ Resident!ListBefore => ResidentInv'
<1> SUFFICES ASSUME ResidentInv, Resident!ListBefore PROVE ResidentInv'
  OBVIOUS
<1>1. job.op = "Create" /\ job.at = 1 /\ job \in DeviceCalls /\ resident = job.base
      /\ UNCHANGED <<seat, resident, created, results, agent, git>>
  BY DEF Resident!ListBefore, Resident!At, ResidentInv, ResidentType, CallShape, OnStep
<1>2. CASE seat # Resident!Nobody /\ Resident!GoOn([job EXCEPT !.listed = Resident!Listing]) /\ UNCHANGED told
  <2> DEFINE x == [job EXCEPT !.listed = Resident!Listing]
  <2>1. Resident!Listing \in SUBSET Nat
    BY KeysAreNumbers DEF ResidentInv, ResidentType
  <2>2. /\ x \in DeviceCalls /\ x.listed = Resident!Listing /\ x.op = "Create" /\ x.at = 1 /\ x.base = job.base /\ x.moved = job.moved
    BY <1>1, <2>1 DEF DeviceCalls
  <2>3. job' = [x EXCEPT !.at = @ + 1]
    BY <1>2 DEF Resident!GoOn
  <2> HIDE DEF x
  <2>4. /\ job' \in DeviceCalls /\ job'.at = 2 /\ job'.op = "Create" /\ job'.base = resident /\ job'.listed = Resident!Listing
    BY <1>1, <2>2, <2>3, GoesOn
  <2>5. ResidentType' /\ Distinct'
    BY <1>1, <2>4 DEF ResidentInv, ResidentType, Distinct
  <2>6. told' = Resident!Nothing /\ Resident!AnswersAreTrue' /\ Resident!SelectionIsWhole'
    BY <1>1, <1>2, CallRuns
  <2>7. CallShape' /\ DeleteSteps' /\ GitSteps'
    BY <1>1, <2>4, <2>6 DEF CallShape, OnStep, DeleteSteps, GitSteps
  <2>8. seat \in Keys /\ Resident!Listing = resident[seat]
    BY <1>2 DEF ResidentInv, ResidentType, Resident!Listing
  <2>9. CreateSteps'
    BY <1>1, <2>4, <2>8 DEF CreateSteps, OnStep
  <2> QED
    BY <2>5, <2>6, <2>7, <2>9 DEF ResidentInv
<1>3. CASE Resident!Done(Resident!Told("not created", 0))
  <2>1. Resident!AnswersAreTrue' /\ Resident!SelectionIsWhole'
    BY <1>1, <1>3, AnswerIsTrue DEF Resident!Done, Answered
  <2> QED
    BY <1>1, <1>3, <2>1, CallEnds DEF Resident!Done, ResidentInv, ResidentType
<1> QED
  BY <1>2, <1>3 DEF Resident!ListBefore

LEMMA KeygenKeeps == ResidentInv /\ Resident!Keygen => ResidentInv'
<1> SUFFICES ASSUME ResidentInv, Resident!Keygen PROVE ResidentInv'
  OBVIOUS
<1>1. job.op = "Create" /\ job.at = 2 /\ job \in DeviceCalls /\ resident = job.base
      /\ UNCHANGED <<seat, results, agent, git>>
  BY DEF Resident!Keygen, Resident!At, ResidentInv, ResidentType, CallShape, OnStep
<1>2. created \in Nat /\ resident \in [Keys -> SUBSET (1 .. created)] /\ results.found \subseteq 1 .. created /\ git \in GitSettings
      /\ seat \in Keys \cup {Resident!Nobody}
  BY DEF ResidentInv, ResidentType
<1>3. ~job.moved => seat \in Keys /\ job.listed = resident[seat]
  BY <1>1 DEF ResidentInv, CreateSteps, OnStep
<1> DEFINE Made == /\ seat \in Keys /\ created' = created + 1
                   /\ resident' = [resident EXCEPT ![seat] = @ \union {created'}]
<1>4. Made \/ UNCHANGED <<created, resident>>
  BY <1>2 DEF Resident!Keygen
<1>5. Made => /\ \A k \in Keys : resident[k] \subseteq 1 .. created /\ created + 1 \notin resident[k]
              /\ \A k \in Keys : resident'[k] = IF k = seat THEN resident[k] \cup {created + 1} ELSE resident[k]
  <2>1. \A k \in Keys : resident[k] \subseteq 1 .. created
    BY <1>2
  <2>2. created + 1 \notin 1 .. created
    BY <1>2
  <2>3. Made => \A k \in Keys : resident'[k] = IF k = seat THEN resident[k] \cup {created + 1} ELSE resident[k]
    BY <1>2
  <2> QED
    BY <2>1, <2>2, <2>3
<1>6. created' \in Nat /\ resident' \in [Keys -> SUBSET (1 .. created')] /\ results.found \subseteq 1 .. created'
  <2>1. CASE Made
    <3>1. created' \in Nat /\ 1 .. created \subseteq 1 .. created' /\ created + 1 \in 1 .. created'
      BY <1>2, <2>1
    <3>2. \A k \in Keys : resident'[k] \subseteq 1 .. created'
      BY <1>5, <2>1, <3>1
    <3>3. DOMAIN resident' = Keys /\ resident' = [k \in Keys |-> resident'[k]]
      BY <1>2, <2>1
    <3> QED
      BY <1>2, <3>1, <3>2, <3>3
  <2>2. CASE UNCHANGED <<created, resident>>
    BY <1>2, <2>2
  <2> QED
    BY <1>4, <2>1, <2>2
<1>7. Distinct'
  <2>1. Made => Distinct'
    BY <1>5 DEF ResidentInv, Distinct
  <2>2. UNCHANGED <<created, resident>> => Distinct'
    BY DEF ResidentInv, Distinct
  <2> QED
    BY <1>4, <2>1, <2>2
<1>8. Made => resident' # resident
  BY <1>5
<1>9. CASE /\ \E written, ok \in BOOLEAN :
                 (ok => written) /\ (written => created' # created) /\ Resident!GoOn([job EXCEPT !.ok = ok, !.files = written])
           /\ UNCHANGED told
  <2>1. PICK written, ok \in BOOLEAN :
          (ok => created' # created) /\ Resident!GoOn([job EXCEPT !.ok = ok, !.files = written])
    BY <1>9
  <2> DEFINE x == [job EXCEPT !.ok = ok, !.files = written]
  <2>2. /\ x \in DeviceCalls /\ x.listed = job.listed /\ x.op = "Create" /\ x.at = 2 /\ x.base = job.base /\ x.moved = job.moved
        /\ x.ok = ok
    BY <1>1 DEF DeviceCalls
  <2>3. job' = [x EXCEPT !.at = @ + 1]
    BY <2>1 DEF Resident!GoOn
  <2> HIDE DEF x
  <2>4. /\ job' \in DeviceCalls /\ job'.at = 3 /\ job'.op = "Create" /\ job'.base = job.base /\ job'.listed = job.listed
        /\ job'.moved = job.moved /\ job'.ok = ok
    BY <1>1, <2>2, <2>3, GoesOn
  <2>5. ResidentType'
    BY <1>1, <1>2, <1>6, <2>4 DEF ResidentType
  <2>6. told' = Resident!Nothing /\ Resident!AnswersAreTrue' /\ Resident!SelectionIsWhole'
    BY <1>1, <1>9, CallRuns
  <2>7. CallShape' /\ DeleteSteps' /\ GitSteps'
    BY <2>4, <2>6 DEF CallShape, OnStep, DeleteSteps, GitSteps
  <2>8. CASE Made
    <3>1. CreateSteps'
      BY <1>1, <1>2, <1>3, <1>5, <1>8, <2>4, <2>8 DEF CreateSteps, OnStep
    <3> QED
      BY <1>7, <2>5, <2>6, <2>7, <3>1 DEF ResidentInv
  <2>9. CASE UNCHANGED <<created, resident>>
    <3>1. CreateSteps'
      BY <1>1, <1>3, <2>1, <2>4, <2>9 DEF CreateSteps, OnStep
    <3> QED
      BY <1>7, <2>5, <2>6, <2>7, <3>1 DEF ResidentInv
  <2> QED
    BY <1>4, <2>8, <2>9
<1>10. CASE Resident!Done(Resident!NoAnswer)
  <2>1. job' = Resident!NoJob /\ told' = [Resident!Nothing EXCEPT !.what = "no answer"]
    BY <1>10 DEF Resident!Done, Resident!NoAnswer
  <2>2. Resident!AnswersAreTrue' /\ Resident!SelectionIsWhole'
    BY <2>1, NothingSaid DEF Unlooked
  <2>3. ResidentType'
    BY <1>1, <1>2, <1>6, <2>1, NoJobFits DEF ResidentType
  <2> QED
    BY <1>7, <2>1, <2>2, <2>3, NoJobFits DEF ResidentInv, CallShape, CreateSteps, DeleteSteps, GitSteps
<1> QED
  BY <1>9, <1>10 DEF Resident!Keygen

LEMMA ListAfterKeeps == ResidentInv /\ Resident!ListAfter => ResidentInv'
<1> SUFFICES ASSUME ResidentInv, Resident!ListAfter PROVE ResidentInv'
  OBVIOUS
<1>1. job.op = "Create" /\ job.at = 3 /\ UNCHANGED <<seat, resident, created, agent, git>> /\ job' = Resident!NoJob
  BY DEF Resident!ListAfter, Resident!At, Resident!Done
<1>2. results'.found \subseteq 1 .. created
  <2>1. results' = [ok |-> TRUE, found |-> Resident!Listing] \/ results' = results
    BY Zenon DEF Resident!ListAfter
  <2>2. results'.found = Resident!Listing \/ results' = results
    BY <2>1
  <2> QED
    BY <2>2, KeysAreNumbers DEF ResidentInv, ResidentType
<1>3. CASE seat # Resident!Nobody /\ told' = Resident!CreateSays(Resident!Listing \ job.listed)
  <2> DEFINE new == Resident!Listing \ job.listed
  <2>1. seat \in Keys /\ Resident!Listing = resident[seat]
    BY <1>3 DEF ResidentInv, ResidentType, Resident!Listing
  <2>2. ~job.moved => \/ resident = job.base /\ ~job.ok /\ new = {}
                      \/ resident # job.base /\ new = {created}
    BY <1>1, <2>1 DEF ResidentInv, CreateSteps, OnStep
  <2> HIDE DEF new
  <2>3. told' = Resident!CreateSaysListed(new)
    BY <1>3 DEF Resident!CreateSays, new
  <2> DEFINE c == CHOOSE c \in new : TRUE
  <2>4. ~job.moved /\ new # {} => c = created
    BY <2>2
  <2> HIDE DEF c
  <2>5. \/ new = {} /\ ~job.ok /\ told' = Resident!Told("not created", 0)
        \/ told' = Resident!Told("inspect, do not retry", 0)
        \/ told' = Resident!Told("created, do not retry", c)
        \/ new # {} /\ told' = Resident!Told("created", c)
    BY <2>3 DEF Resident!CreateSaysListed, c
  <2>6. Resident!AnswersAreTrue' /\ Resident!SelectionIsWhole'
    <3>1. CASE new = {} /\ told' = Resident!Told("not created", 0)
      BY <1>1, <2>2, <3>1, AnswerIsTrue DEF Answered
    <3>2. CASE told' = Resident!Told("inspect, do not retry", 0)
      BY <1>1, <3>2, AnswerIsTrue DEF Answered
    <3>3. CASE told' = Resident!Told("created, do not retry", c)
      BY <1>1, <3>3, AnswerIsTrue DEF Answered
    <3>4. CASE new # {} /\ told' = Resident!Told("created", c)
      BY <1>1, <2>2, <2>4, <3>4, AnswerIsTrue DEF Answered
    <3> QED
      BY <2>5, <3>1, <3>2, <3>3, <3>4
  <2> QED
    BY <1>1, <1>2, <2>6, CallEnds
<1>4. CASE told' = Resident!Told("inspect, do not retry", 0)
  <2>1. Resident!AnswersAreTrue' /\ Resident!SelectionIsWhole'
    BY <1>1, <1>4, AnswerIsTrue DEF Answered
  <2> QED
    BY <1>1, <1>2, <2>1, CallEnds
<1> QED
  BY <1>3, <1>4 DEF Resident!ListAfter, Resident!Done

LEMMA CheckCredentialKeeps == ResidentInv /\ Resident!CheckCredential => ResidentInv'
<1> SUFFICES ASSUME ResidentInv, Resident!CheckCredential PROVE ResidentInv'
  OBVIOUS
<1>1. job.op = "Delete" /\ job.at = 1 /\ job \in DeviceCalls /\ resident = job.base
      /\ UNCHANGED <<seat, resident, created, results, agent, git>>
  BY DEF Resident!CheckCredential, Resident!At, ResidentInv, ResidentType, CallShape, OnStep
<1>2. CASE seat # Resident!Nobody /\ job.cred \in Resident!Listing /\ Resident!GoOn(job) /\ UNCHANGED told
  <2>1. /\ job' \in DeviceCalls /\ job'.at = 2 /\ job'.op = "Delete" /\ job'.base = job.base /\ job'.cred = job.cred
    BY <1>1, <1>2, GoesOn DEF Resident!GoOn
  <2>2. ResidentType' /\ Distinct'
    BY <1>1, <2>1 DEF ResidentInv, ResidentType, Distinct
  <2>3. told' = Resident!Nothing /\ Resident!AnswersAreTrue' /\ Resident!SelectionIsWhole'
    BY <1>1, <1>2, CallRuns
  <2>4. CallShape' /\ CreateSteps' /\ GitSteps'
    BY <1>1, <2>1, <2>3 DEF CallShape, OnStep, CreateSteps, GitSteps
  <2>5. seat \in Keys /\ job.cred \in resident[seat]
    BY <1>2 DEF ResidentInv, ResidentType, Resident!Listing
  <2>6. \A k \in Keys \ {seat} : job.cred \notin resident[k]
    BY <2>5 DEF ResidentInv, Distinct
  <2>7. DeleteSteps'
    BY <1>1, <2>1, <2>5, <2>6 DEF DeleteSteps, OnStep
  <2> QED
    BY <2>2, <2>3, <2>4, <2>7 DEF ResidentInv
<1>3. CASE Resident!Done(Resident!Told("not deleted", job.cred))
  <2>1. Resident!AnswersAreTrue' /\ Resident!SelectionIsWhole'
    BY <1>1, <1>3, AnswerIsTrue DEF Resident!Done, Answered
  <2> QED
    BY <1>1, <1>3, <2>1, CallEnds DEF Resident!Done, ResidentInv, ResidentType
<1> QED
  BY <1>2, <1>3 DEF Resident!CheckCredential

LEMMA DeleteCommandKeeps == ResidentInv /\ Resident!DeleteCommand => ResidentInv'
<1> SUFFICES ASSUME ResidentInv, Resident!DeleteCommand PROVE ResidentInv'
  OBVIOUS
<1>1. job.op = "Delete" /\ job.at = 2 /\ job \in DeviceCalls /\ resident = job.base
      /\ UNCHANGED <<seat, created, results, agent, git, told>>
  BY DEF Resident!DeleteCommand, Resident!At, ResidentInv, ResidentType, CallShape, OnStep
<1>2. told' = Resident!Nothing /\ Resident!AnswersAreTrue' /\ Resident!SelectionIsWhole'
  BY <1>1, CallRuns
<1>3. ~job.moved => seat \in Keys /\ \A k \in Keys \ {seat} : job.cred \notin resident[k]
  BY <1>1 DEF ResidentInv, DeleteSteps, OnStep
<1>4. CASE /\ seat # Resident!Nobody /\ resident' = [resident EXCEPT ![seat] = @ \ {job.cred}]
           /\ \E ok \in BOOLEAN : Resident!GoOn([job EXCEPT !.ok = ok])
  <2>1. PICK ok \in BOOLEAN : Resident!GoOn([job EXCEPT !.ok = ok])
    BY <1>4
  <2> DEFINE x == [job EXCEPT !.ok = ok]
  <2>2. /\ x \in DeviceCalls /\ x.op = "Delete" /\ x.at = 2 /\ x.base = job.base /\ x.moved = job.moved /\ x.cred = job.cred
    BY <1>1 DEF DeviceCalls
  <2>3. job' = [x EXCEPT !.at = @ + 1]
    BY <2>1 DEF Resident!GoOn
  <2> HIDE DEF x
  <2>4. /\ job' \in DeviceCalls /\ job'.at = 3 /\ job'.op = "Delete" /\ job'.base = job.base /\ job'.cred = job.cred
        /\ job'.moved = job.moved
    BY <1>1, <2>2, <2>3, GoesOn
  <2>5. seat \in Keys /\ resident \in [Keys -> SUBSET (1 .. created)]
    BY <1>4 DEF ResidentInv, ResidentType
  <2>6. \A k \in Keys : resident'[k] = IF k = seat THEN resident[k] \ {job.cred} ELSE resident[k]
    BY <1>4, <2>5
  <2>7. resident' \in [Keys -> SUBSET (1 .. created)]
    BY <1>4, <2>5
  <2>8. ResidentType'
    BY <1>1, <2>4, <2>7 DEF ResidentInv, ResidentType
  <2>9. Distinct'
    BY <2>6 DEF ResidentInv, Distinct
  <2>10. CallShape' /\ CreateSteps' /\ GitSteps'
    BY <1>2, <2>4 DEF CallShape, OnStep, CreateSteps, GitSteps
  <2>11. DeleteSteps'
    BY <1>1, <1>3, <2>4, <2>5, <2>6 DEF DeleteSteps, OnStep
  <2> QED
    BY <1>2, <2>8, <2>9, <2>10, <2>11 DEF ResidentInv
<1>5. CASE Resident!GoOn(job) /\ UNCHANGED resident
  <2>1. /\ job' \in DeviceCalls /\ job'.at = 3 /\ job'.op = "Delete" /\ job'.base = job.base /\ job'.cred = job.cred
        /\ job'.moved = job.moved
    BY <1>1, <1>5, GoesOn DEF Resident!GoOn
  <2>2. ResidentType' /\ Distinct'
    BY <1>1, <1>5, <2>1 DEF ResidentInv, ResidentType, Distinct
  <2>3. CallShape' /\ CreateSteps' /\ GitSteps'
    BY <1>2, <2>1 DEF CallShape, OnStep, CreateSteps, GitSteps
  <2>4. DeleteSteps'
    BY <1>1, <1>3, <1>5, <2>1 DEF DeleteSteps, OnStep
  <2> QED
    BY <1>2, <2>2, <2>3, <2>4 DEF ResidentInv
<1> QED
  BY <1>4, <1>5 DEF Resident!DeleteCommand

LEMMA VerifyDeletedKeeps == ResidentInv /\ Resident!VerifyDeleted => ResidentInv'
<1> SUFFICES ASSUME ResidentInv, Resident!VerifyDeleted PROVE ResidentInv'
  OBVIOUS
<1>1. job.op = "Delete" /\ job.at = 3 /\ UNCHANGED <<seat, resident, created, agent, git>> /\ job' = Resident!NoJob
  BY DEF Resident!VerifyDeleted, Resident!At, Resident!Done
<1>2. results'.found \subseteq 1 .. created
  <2>1. results' = [ok |-> TRUE, found |-> Resident!Listing] \/ results' = results
    BY Zenon DEF Resident!VerifyDeleted
  <2>2. results'.found = Resident!Listing \/ results' = results
    BY <2>1
  <2> QED
    BY <2>2, KeysAreNumbers DEF ResidentInv, ResidentType
<1>3. CASE seat # Resident!Nobody /\ told' = Resident!Told(Resident!FinishDelete(Resident!Listing), job.cred)
  <2>1. seat \in Keys /\ Resident!Listing = resident[seat]
    BY <1>3 DEF ResidentInv, ResidentType, Resident!Listing
  <2>2. ~job.moved => /\ \A k \in Keys \ {seat} : job.cred \notin resident[k]
                      /\ resident = job.base \/ job.cred \notin resident[seat]
    BY <1>1 DEF ResidentInv, DeleteSteps, OnStep
  <2>3. Resident!AnswersAreTrue' /\ Resident!SelectionIsWhole'
    <3>1. CASE job.cred \in resident[seat] /\ told' = Resident!Told("not deleted", job.cred)
      BY <1>1, <2>2, <3>1, AnswerIsTrue DEF Answered
    <3>2. CASE job.cred \notin resident[seat] /\ told' = Resident!Told("deleted", job.cred)
      <4>1. ~job.moved => \A k \in Keys : job.cred \notin resident[k]
        BY <2>2, <3>2
      <4> QED
        BY <1>1, <3>2, <4>1, AnswerIsTrue DEF Answered
    <3> QED
      BY <1>3, <2>1, <3>1, <3>2 DEF Resident!FinishDelete
  <2> QED
    BY <1>1, <1>2, <2>3, CallEnds
<1>4. CASE told' = Resident!Told("unknown, do not retry", job.cred)
  <2>1. Resident!AnswersAreTrue' /\ Resident!SelectionIsWhole'
    BY <1>1, <1>4, AnswerIsTrue DEF Answered
  <2> QED
    BY <1>1, <1>2, <2>1, CallEnds
<1> QED
  BY <1>3, <1>4 DEF Resident!VerifyDeleted, Resident!Done

LEMMA SshAddKeeps == ResidentInv /\ Resident!SshAdd => ResidentInv'
<1> SUFFICES ASSUME ResidentInv, Resident!SshAdd PROVE ResidentInv'
  OBVIOUS
<1>1. UNCHANGED <<seat, resident, created, results, git>> /\ job' = Resident!NoJob
  BY DEF Resident!SshAdd, Resident!Done
<1>2. \/ told' = Resident!Told("loaded", 0) \/ told' = Resident!Told("not loaded", 0)
      \/ told' = [Resident!Nothing EXCEPT !.what = "no answer"]
  BY DEF Resident!SshAdd, Resident!Done, Resident!NoAnswer
<1>3. Resident!AnswersAreTrue' /\ Resident!SelectionIsWhole'
  <2>1. CASE told' = Resident!Told("loaded", 0)
    BY <1>1, <2>1, AnswerIsTrue DEF Answered
  <2>2. CASE told' = Resident!Told("not loaded", 0)
    BY <1>1, <2>2, AnswerIsTrue DEF Answered
  <2>3. CASE told' = [Resident!Nothing EXCEPT !.what = "no answer"]
    BY <2>3, NothingSaid DEF Unlooked
  <2> QED
    BY <1>2, <2>1, <2>2, <2>3
<1> QED
  BY <1>1, <1>3, CallEnds DEF ResidentInv, ResidentType

LEMMA WriteSettingKeeps == ResidentInv /\ Resident!WriteSetting => ResidentInv'
<1> SUFFICES ASSUME ResidentInv, Resident!WriteSetting PROVE ResidentInv'
  OBVIOUS
<1>0. Len(Resident!Settings) = 4 /\ Resident!Settings[1] = "format" /\ Resident!Settings[2] = "key"
      /\ Resident!Settings[3] = "commits" /\ Resident!Settings[4] = "tags"
  BY DEF Resident!Settings
<1>1. job.op = "Git" /\ job.at \in {1, 2, 3, 4} /\ job \in DeviceCalls /\ git \in GitSettings
      /\ UNCHANGED <<seat, resident, created, results, told>>
  BY <1>0 DEF Resident!WriteSetting, ResidentInv, ResidentType, CallShape, OnStep
<1> DEFINE aim == Target
<1>2. aim \in GitSettings /\ job.old \in GitSettings /\ job.new \in GitSettings
  BY <1>1 DEF Target, DeviceCalls
<1>3. git' = [git EXCEPT ![Resident!Settings[job.at]] = aim[Resident!Settings[job.at]]]
  BY DEF Resident!WriteSetting, Target
<1>4. /\ job' \in DeviceCalls /\ job'.at = job.at + 1 /\ job'.op = "Git" /\ job'.failed = job.failed
      /\ job'.old = job.old /\ job'.new = job.new
  BY <1>1, GoesOn DEF Resident!WriteSetting, Resident!GoOn
<1>5. Target' = aim
  BY <1>4 DEF Target
<1>6. /\ job.at > 1 => git.format = aim.format
      /\ job.at > 2 => git.key = aim.key
      /\ job.at > 3 => git.commits = aim.commits
  BY <1>1 DEF ResidentInv, GitSteps
<1> HIDE DEF aim
<1>7. git' \in GitSettings /\ GitSteps'
  <2>1. CASE job.at = 1
    <3>1. git' = [git EXCEPT !.format = aim.format]
      BY <1>0, <1>3, <2>1
    <3>2. git' \in GitSettings /\ git'.format = aim.format
      BY <1>1, <1>2, <3>1 DEF GitSettings
    <3> QED
      BY <1>4, <1>5, <2>1, <3>2 DEF GitSteps
  <2>2. CASE job.at = 2
    <3>1. git' = [git EXCEPT !.key = aim.key]
      BY <1>0, <1>3, <2>2
    <3>2. git' \in GitSettings /\ git'.format = git.format /\ git'.key = aim.key
      BY <1>1, <1>2, <3>1 DEF GitSettings
    <3> QED
      BY <1>4, <1>5, <1>6, <2>2, <3>2 DEF GitSteps
  <2>3. CASE job.at = 3
    <3>1. git' = [git EXCEPT !.commits = aim.commits]
      BY <1>0, <1>3, <2>3
    <3>2. git' \in GitSettings /\ git'.format = git.format /\ git'.key = git.key /\ git'.commits = aim.commits
      BY <1>1, <1>2, <3>1 DEF GitSettings
    <3> QED
      BY <1>4, <1>5, <1>6, <2>3, <3>2 DEF GitSteps
  <2>4. CASE job.at = 4
    <3>1. git' = [git EXCEPT !.tags = aim.tags]
      BY <1>0, <1>3, <2>4
    <3>2. git' \in GitSettings /\ git'.format = git.format /\ git'.key = git.key /\ git'.commits = git.commits
          /\ git'.tags = aim.tags
      BY <1>1, <1>2, <3>1 DEF GitSettings
    <3> QED
      BY <1>4, <1>5, <1>6, <2>4, <3>2 DEF GitSteps
  <2> QED
    BY <1>1, <2>1, <2>2, <2>3, <2>4
<1>8. ResidentType' /\ Distinct'
  BY <1>1, <1>4, <1>7 DEF ResidentInv, ResidentType, Distinct
<1>9. told' = Resident!Nothing /\ Resident!AnswersAreTrue' /\ Resident!SelectionIsWhole'
  BY <1>1, CallRuns
<1>10. CallShape' /\ CreateSteps' /\ DeleteSteps'
  BY <1>1, <1>4, <1>9 DEF CallShape, OnStep, CreateSteps, DeleteSteps
<1> QED
  BY <1>7, <1>8, <1>9, <1>10 DEF ResidentInv

LEMMA SettingFailsKeeps == ResidentInv /\ Resident!SettingFails => ResidentInv'
<1> SUFFICES ASSUME ResidentInv, Resident!SettingFails PROVE ResidentInv'
  OBVIOUS
<1>1. job.op = "Git" /\ job \in DeviceCalls /\ UNCHANGED <<seat, resident, created, results, git>>
  BY DEF Resident!SettingFails, ResidentInv, ResidentType
<1>2. CASE job' = [job EXCEPT !.failed = TRUE, !.at = 1] /\ UNCHANGED told
  <2>1. job' \in DeviceCalls /\ job'.op = "Git" /\ job'.at = 1
    <3>1. job' = [[job EXCEPT !.failed = TRUE] EXCEPT !.at = 1]
      BY <1>2
    <3> DEFINE refused == [job EXCEPT !.failed = TRUE]
    <3>2. refused \in DeviceCalls /\ refused.op = "Git"
      BY <1>1 DEF DeviceCalls
    <3>3. job' = [refused EXCEPT !.at = 1]
      BY <3>1
    <3> HIDE DEF refused
    <3> QED
      BY <3>2, <3>3 DEF DeviceCalls
  <2>2. ResidentType' /\ Distinct'
    BY <1>1, <2>1 DEF ResidentInv, ResidentType, Distinct
  <2>3. told' = Resident!Nothing /\ Resident!AnswersAreTrue' /\ Resident!SelectionIsWhole'
    BY <1>1, <1>2, CallRuns
  <2>4. CallShape' /\ CreateSteps' /\ DeleteSteps' /\ GitSteps'
    BY <2>1, <2>3 DEF CallShape, OnStep, CreateSteps, DeleteSteps, GitSteps
  <2> QED
    BY <2>2, <2>3, <2>4 DEF ResidentInv
\* Taking it back failed.
<1>3. CASE Resident!Done([Resident!Nothing EXCEPT !.what = "git torn"])
  <2>1. Resident!AnswersAreTrue' /\ Resident!SelectionIsWhole'
    BY <1>3, NothingSaid DEF Unlooked, Resident!Done
  <2> QED
    BY <1>1, <1>3, <2>1, CallEnds DEF Resident!Done, ResidentInv, ResidentType
<1> QED
  BY <1>2, <1>3 DEF Resident!SettingFails

LEMMA EndGitKeeps == ResidentInv /\ Resident!EndGit => ResidentInv'
<1> SUFFICES ASSUME ResidentInv, Resident!EndGit PROVE ResidentInv'
  OBVIOUS
<1>1. job.op = "Git" /\ job.at > 4 /\ job \in DeviceCalls /\ git \in GitSettings /\ job' = Resident!NoJob
      /\ UNCHANGED <<seat, resident, created, results, git>>
  BY DEF Resident!EndGit, Resident!Done, Resident!Settings, ResidentInv, ResidentType
<1>2. Target \in GitSettings
  BY <1>1 DEF Target, DeviceCalls
<1>3. git.format = Target.format /\ git.key = Target.key /\ git.commits = Target.commits /\ git.tags = Target.tags
  <2>1. job.at > 1 /\ job.at > 2 /\ job.at > 3
    BY <1>1 DEF DeviceCalls
  <2> QED
    BY <1>1, <2>1 DEF ResidentInv, GitSteps
<1>4. git = Target
  BY <1>1, <1>2, <1>3 DEF GitSettings
<1>5. told'.sure = FALSE /\ told'.git = Target
  BY DEF Resident!EndGit, Resident!Done, Resident!Nothing, Target
<1>6. Resident!AnswersAreTrue' /\ Resident!SelectionIsWhole'
  BY <1>1, <1>4, <1>5 DEF Resident!AnswersAreTrue, Resident!SelectionIsWhole
<1> QED
  BY <1>1, <1>6, CallEnds DEF ResidentInv, ResidentType

LEMMA ResidentKeeps == ResidentInv /\ Resident!Next => ResidentInv'
BY InspectDeviceKeeps, EndInspectKeeps, CreateKeyKeeps, ListBeforeKeeps, KeygenKeeps, ListAfterKeeps, DeleteKeyKeeps,
   CheckCredentialKeeps, DeleteCommandKeeps, VerifyDeletedKeeps, LoadKeysKeeps, SshAddKeeps, RemoveFromAgentKeeps,
   SelectKeyKeeps, DisableSigningKeeps, WriteSettingKeeps, SettingFailsKeeps, EndGitKeeps, KilledKeeps, SwapKeyKeeps
   DEF Resident!Next

\* While the page of the resident keys is not what runs, nothing of it changes.
ResidentBeside == program = "resident keys" => ResidentInv

LEMMA ResidentBesideHolds == ProgramSpec => []ResidentBeside
<1>1. ProgramInit => ResidentBeside
  BY ResidentStarts DEF ProgramInit, ResidentBeside
<1>2. ResidentBeside /\ [ProgramNext]_programVars => ResidentBeside'
  <2> SUFFICES ASSUME ResidentBeside, [ProgramNext]_programVars PROVE ResidentBeside'
    OBVIOUS
  <2>1. CASE ProgramNext
    <3>1. program' = program /\ (program = "resident keys" => Resident!Next)
      BY <2>1 DEF ProgramNext
    <3> QED
      BY <3>1, ResidentKeeps DEF ResidentBeside
  <2>2. CASE UNCHANGED programVars
    <3>1. program' = program /\ UNCHANGED ofResident
      BY <2>2 DEF programVars
    <3> QED
      BY <3>1, ResidentRests DEF ResidentBeside
  <2> QED
    BY <2>1, <2>2
<1> QED
  BY <1>1, <1>2, PTL DEF ProgramSpec

\* However many keys are plugged in, swapped and read again, and wherever a command fails or is
\* killed: what the Home page settled on is what is plugged in; the block in the SSH configuration
\* has its fragment, what the user wrote there survives, and a change that failed is taken back
\* unless taking it back failed as well; the page never says that a credential was created,
\* deleted or left alone when it was not, no credential goes but the one a call names, and a
\* selection for Git that is reported is there as a whole.
THEOREM KeyPagesAlwaysHonest == ProgramSpec => []KeyPagesAreHonest
<1>1. SshBeside /\ ResidentBeside /\ KeyHomeBeside => KeyPagesAreHonest
  BY SshThen, ResidentThen, KeyHomeThen
  DEF SshBeside, ResidentBeside, KeyHomeBeside, KeyPagesAreHonest, PersistenceIsSafe, ResidentKeysAreHonest,
      HomeIsFresh
<1> QED
  BY <1>1, SshBesideHolds, ResidentBesideHolds, KeyHomeBesideHolds, PTL
=============================================================================
