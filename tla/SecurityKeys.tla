------------------------------ MODULE SecurityKeys ------------------------------
(***************************************************************************)
(* Who may use sudo, as the YubiKey manager manages it                     *)
(* (andiora-yubikey-manager: backend.rs, window.rs and the privileged      *)
(* data/helper): the sudo page of every account, the enrolment of a key    *)
(* that the page can only recognise by being the one connected, and the    *)
(* helper that keeps four files in step (enrollments.json, the PAM mapping,*)
(* the PAM stack, sudoers), one write after the other, and may die between *)
(* any two.  gdm is a second copy of the keys' half and shares only the    *)
(* lock.                                                                   *)
(***************************************************************************)
EXTENDS Integers, FiniteSets

CONSTANTS
  Accounts,      \* the accounts of the machine
  Locked,        \* those without a usable password
  Keys,          \* the security keys, each with its serial
  MostMinted,    \* bound: credentials made
  MostHelperRuns       \* bound: helper runs

\* What the constants must be.
KeyConstants == Locked \subseteq Accounts /\ MostMinted \in Nat /\ MostHelperRuns \in Nat

VARIABLES
  enrolled,      \* enrollments.json: enrollments
  mapping,       \* the PAM mapping: the credentials accepted for each account
  pam,           \* /etc/pam.d/sudo asks pam_u2f
  managed,       \* sudoers.d/90-andiora-yubikey-manager: accounts with NOPASSWD
  installer,     \* the same rules in the other files, as the installer writes them
  nopass,        \* enrollments.json: passwordless_sudo_users
  minted,        \* bound: credentials made so far
  window,        \* the sudo page of each account
  holder,        \* the helper run that holds the lock
  helperRuns,    \* bound: runs so far
  wish,          \* history: the policy each account chose last
  cut,           \* history: accounts whose run died after its first write
  orphans,       \* history: credentials whose enrolment died before it was listed
  gaveUp         \* history: accounts that removed their last key

keyVars == <<enrolled, mapping, pam, managed, installer, nopass, minted,
             window, holder, helperRuns, wish, cut, orphans, gaveUp>>

policyFiles == <<managed, installer, nopass>>
keyFiles == <<enrolled, mapping, pam>>
histories == <<wish, cut, orphans, gaveUp>>

NoRun == [op |-> "None"]
Closed == [stage |-> "closed"]
EnrolledBy(u) == {e \in enrolled : e.user = u}
Passwordless(u) == u \in managed \union installer
Authenticates(u) == pam /\ mapping[u] # {}

(***************************************************************************)
(* The page.  It is drawn from enrollments.json and the connected keys and *)
(* stays as drawn until the operation it starts has ended.                 *)
(***************************************************************************)
\* One account at a time sits at the machine; the others' runs go on.
AtDesk == \A v \in Accounts : window[v].stage \in {"closed", "waiting"}

OpenPage(u) ==
  /\ window[u].stage = "closed" /\ AtDesk
  /\ window' = [window EXCEPT ![u] =
       [stage |-> "shown", policy |-> u \in nopass,
        active |-> {e.serial : e \in EnrolledBy(u)}]]
  /\ UNCHANGED <<keyFiles, policyFiles, minted, holder, helperRuns, histories>>

\* Leaves the page, or the operation has failed before any helper ran.
Leave(u) == window' = [window EXCEPT ![u] = Closed]

ClosePage(u) ==
  /\ window[u].stage = "shown"
  /\ Leave(u)
  /\ UNCHANGED <<keyFiles, policyFiles, minted, holder, helperRuns, histories>>

AskHelper(u, request) == window' = [window EXCEPT ![u] = [stage |-> "helper", request |-> request]]

TogglePolicy(u) ==
  /\ window[u].stage = "shown"
  /\ AskHelper(u, [op |-> IF window[u].policy THEN "Disable" ELSE "Enable", user |-> u, step |-> 1])
  /\ UNCHANGED <<keyFiles, policyFiles, minted, holder, helperRuns, histories>>

ToggleOff(u) ==
  /\ window[u].stage = "shown"
  /\ \E s \in window[u].active : AskHelper(u, [op |-> "Remove", user |-> u, serial |-> s, step |-> 1])
  /\ UNCHANGED <<keyFiles, policyFiles, minted, holder, helperRuns, histories>>

\* pamu2fcfg cannot be told which key to use.
SoleKeyIs(s, present) == present = {s}

\* Any keys may be plugged in when a row is switched on.
ToggleOn(u) ==
  /\ window[u].stage = "shown"
  /\ \E present \in SUBSET Keys : \E s \in Keys \ window[u].active :
       IF SoleKeyIs(s, present)
         THEN window' = [window EXCEPT ![u] =
                [stage |-> "touch", serial |-> s, present |-> present, moved |-> FALSE]]
         ELSE Leave(u)
  /\ UNCHANGED <<keyFiles, policyFiles, minted, holder, helperRuns, histories>>

Touch(u) ==
  /\ window[u].stage = "touch" /\ minted < MostMinted
  /\ minted' = minted + 1
  /\ \E k \in window[u].present :
       AskHelper(u, [op |-> "Enroll", user |-> u, serial |-> window[u].serial, step |-> 1,
                     cred |-> [key |-> k, number |-> minted', sure |-> ~window[u].moved]])
  /\ UNCHANGED <<keyFiles, policyFiles, holder, helperRuns, histories>>

TouchTimesOut(u) ==
  /\ window[u].stage = "touch"
  /\ Leave(u)
  /\ UNCHANGED <<keyFiles, policyFiles, minted, holder, helperRuns, histories>>

\* Polkit's prompt is dismissed.
Dismiss(u) ==
  /\ window[u].stage = "helper"
  /\ Leave(u)
  /\ UNCHANGED <<keyFiles, policyFiles, minted, holder, helperRuns, histories>>

\* A key comes or goes while the page waits for the touch.
Plug(u) ==
  /\ window[u].stage = "touch"
  /\ \E present \in SUBSET Keys :
       window' = [window EXCEPT ![u].present = present, ![u].moved = TRUE]
  /\ UNCHANGED <<keyFiles, policyFiles, minted, holder, helperRuns, histories>>

(***************************************************************************)
(* The helper.  The lock lets one run at a time; each step is one write.   *)
(***************************************************************************)
TakeLock(u) ==
  /\ holder = NoRun /\ window[u].stage = "helper" /\ helperRuns < MostHelperRuns
  /\ helperRuns' = helperRuns + 1
  /\ holder' = window[u].request
  /\ window' = [window EXCEPT ![u] = [stage |-> "waiting"]]
  /\ UNCHANGED <<keyFiles, policyFiles, minted, histories>>

Running(op, step) == holder.op = op /\ holder.step = step
NextStep == holder' = [holder EXCEPT !.step = @ + 1]
\* The run has ended, well or not; its page is drawn anew.
EndRun ==
  /\ holder' = NoRun
  /\ window' = IF holder.op = "Repair" THEN window ELSE [window EXCEPT ![holder.user] = Closed]

OfSerial(u, s) == {e \in EnrolledBy(u) : e.serial = s}

EnrollWritesMapping ==
  /\ Running("Enroll", 1)
  /\ mapping' = [mapping EXCEPT ![holder.user] = @ \union {holder.cred}]
  /\ NextStep
  /\ UNCHANGED <<enrolled, pam, policyFiles, minted, window, helperRuns, histories>>

EnrollWritesMetadata ==
  /\ Running("Enroll", 2)
  /\ enrolled' = IF OfSerial(holder.user, holder.serial) # {} THEN enrolled
                 ELSE enrolled \union {[user |-> holder.user, serial |-> holder.serial, cred |-> holder.cred]}
  /\ NextStep
  /\ UNCHANGED <<mapping, pam, policyFiles, minted, window, helperRuns, histories>>

\* write_state writes the mapping before the metadata.
RemoveFromMapping(step) ==
  /\ Running("Remove", step)
  /\ mapping' = [mapping EXCEPT ![holder.user] = @ \ {e.cred : e \in OfSerial(holder.user, holder.serial)}]
  /\ NextStep
  /\ gaveUp' = IF mapping'[holder.user] = {} THEN gaveUp \union {holder.user} ELSE gaveUp
  /\ UNCHANGED <<enrolled, pam, policyFiles, minted, window, helperRuns, wish, cut, orphans>>

RemoveFromMetadata(step) ==
  /\ Running("Remove", step)
  /\ enrolled' = enrolled \ OfSerial(holder.user, holder.serial)
  /\ NextStep
  /\ UNCHANGED <<mapping, pam, policyFiles, minted, window, helperRuns, histories>>

RemoveMetadataFirst == RemoveFromMetadata(1) \/ RemoveFromMapping(2)
RemoveWrites == RemoveFromMapping(1) \/ RemoveFromMetadata(2)

EnsurePam ==
  /\ Running("Enroll", 3) \/ Running("Remove", 3)
  /\ pam' = (enrolled # {})
  /\ EndRun
  /\ gaveUp' = IF holder.op = "Enroll" THEN gaveUp \ {holder.user} ELSE gaveUp
  /\ UNCHANGED <<enrolled, mapping, policyFiles, minted, helperRuns, wish, cut, orphans>>

(***************************************************************************)
(* The sudo policy.  backups and the accounts to list are read first;      *)
(* visudo checks the whole configuration before and after the writes, and  *)
(* can fail on a file that somebody else is editing.                       *)
(***************************************************************************)
MayDisable(u) == u \notin Locked \/ EnrolledBy(u) # {}

ReadPolicy ==
  /\ Running("Enable", 1) \/ Running("Disable", 1)
  /\ \/ /\ holder.op = "Enable" \/ MayDisable(holder.user)
        /\ holder' = [op |-> holder.op, user |-> holder.user, step |-> 2, managed |-> managed,
                      installer |-> installer, listed |-> nopass \union managed]
        /\ UNCHANGED window
     \/ EndRun
  /\ UNCHANGED <<keyFiles, policyFiles, minted, helperRuns, histories>>

EnableWritesRule ==
  /\ Running("Enable", 2)
  /\ managed' = holder.listed \union {holder.user}
  /\ holder' = [holder EXCEPT !.step = 4]
  /\ UNCHANGED <<keyFiles, installer, nopass, minted, window, helperRuns, histories>>

\* Every file is filtered, in the order the directory lists them.
DisableWritesFile ==
  /\ Running("Disable", 2) \/ Running("Disable", 3)
  /\ \/ managed' = managed \ {holder.user} /\ UNCHANGED installer
     \/ installer' = installer \ {holder.user} /\ UNCHANGED managed
  /\ holder.step = 3 => holder.user \notin managed' \union installer'
  /\ NextStep
  /\ UNCHANGED <<keyFiles, nopass, minted, window, helperRuns, histories>>

\* visudo accepts what was written: it is recorded.
PolicyAccepted ==
  /\ Running("Enable", 4) \/ Running("Disable", 4)
  /\ nopass' = IF holder.op = "Enable" THEN holder.listed \union {holder.user} ELSE holder.listed \ {holder.user}
  /\ wish' = [wish EXCEPT ![holder.user] = (holder.op = "Enable")]
  /\ EndRun
  /\ UNCHANGED <<keyFiles, managed, installer, minted, helperRuns, cut, orphans, gaveUp>>

\* visudo or the record failed: every file is put back.
PolicyRestored ==
  /\ Running("Enable", 4) \/ Running("Disable", 4)
  /\ managed' = holder.managed /\ installer' = holder.installer
  /\ EndRun
  /\ UNCHANGED <<keyFiles, nopass, minted, helperRuns, histories>>

(***************************************************************************)
(* The package's postinst rebuilds the mapping and the PAM stack from the  *)
(* metadata, and the list of passwordless accounts from the managed file.  *)
(***************************************************************************)
StartRepair ==
  /\ holder = NoRun /\ helperRuns < MostHelperRuns
  /\ helperRuns' = helperRuns + 1
  /\ holder' = [op |-> "Repair", step |-> 1]
  /\ UNCHANGED <<keyFiles, policyFiles, minted, window, histories>>

RepairKeys ==
  /\ Running("Repair", 1)
  /\ mapping' = [u \in Accounts |-> {e.cred : e \in EnrolledBy(u)}]
  /\ orphans' = {}
  /\ NextStep
  /\ UNCHANGED <<enrolled, pam, policyFiles, minted, window, helperRuns, wish, cut, gaveUp>>

RepairPam ==
  /\ Running("Repair", 2)
  /\ pam' = (enrolled # {})
  /\ NextStep
  /\ UNCHANGED <<enrolled, mapping, policyFiles, minted, window, helperRuns, histories>>

RepairPolicy ==
  /\ Running("Repair", 3)
  /\ nopass' = managed
  /\ EndRun
  /\ UNCHANGED <<keyFiles, managed, installer, minted, helperRuns, histories>>

\* Killed, or the machine lost power.
HelperDies ==
  /\ holder # NoRun
  /\ EndRun
  /\ cut' = IF holder.op # "Repair" /\ holder.step > 1 THEN cut \union {holder.user} ELSE cut
  /\ orphans' = IF Running("Enroll", 2) THEN orphans \union {holder.cred} ELSE orphans
  /\ UNCHANGED <<keyFiles, policyFiles, minted, helperRuns, wish, gaveUp>>

Init ==
  /\ enrolled = {} /\ mapping = [u \in Accounts |-> {}] /\ pam = FALSE
  /\ managed = {} /\ nopass = {} /\ installer \in SUBSET Accounts
  /\ minted = 0 /\ helperRuns = 0
  /\ window = [u \in Accounts |-> Closed] /\ holder = NoRun
  /\ wish = [u \in Accounts |-> u \in installer]
  /\ cut = {} /\ orphans = {} /\ gaveUp = {u \in Accounts : u \notin installer}

Next ==
  \/ \E u \in Accounts :
       \/ OpenPage(u) \/ ClosePage(u) \/ TogglePolicy(u) \/ ToggleOff(u) \/ ToggleOn(u)
       \/ Touch(u) \/ TouchTimesOut(u) \/ Dismiss(u) \/ TakeLock(u) \/ Plug(u)
  \/ EnrollWritesMapping \/ EnrollWritesMetadata \/ RemoveWrites \/ EnsurePam
  \/ ReadPolicy \/ EnableWritesRule \/ DisableWritesFile \/ PolicyAccepted \/ PolicyRestored
  \/ StartRepair \/ RepairKeys \/ RepairPam \/ RepairPolicy \/ HelperDies

Spec == Init /\ [][Next]_keyVars

(***************************************************************************)
(* Properties.                                                             *)
(***************************************************************************)
\* A credential is accepted only while the page lists it, whatever dies:
\* a removal never leaves a key accepted that is no longer listed.
AcceptedIsListed ==
  \A u \in Accounts : \A c \in mapping[u] :
    \/ \E e \in EnrolledBy(u) : e.cred = c
    \/ c \in orphans
    \/ holder.op = "Enroll" /\ holder.user = u /\ holder.cred = c

\* An account without a password that asks for authentication can still
\* authenticate, unless it gave its last key up or its own run was cut off.
SwitchNeverLocksOut ==
  \A u \in Locked : Passwordless(u) \/ Authenticates(u) \/ u \in gaveUp \union cut

\* Nobody's sudo policy changes but by the account's own completed choice.
PolicyIsOwn ==
  \A u \in Accounts :
    \/ (Passwordless(u) <=> wish[u])
    \/ u \in cut
    \/ holder.op \in {"Enable", "Disable"} /\ holder.user = u

\* The entry of a serial holds a credential of the key with that serial,
\* if no key came or went while the page waited for the touch.
EnrollmentNamesKey == \A e \in enrolled : e.cred.sure => e.cred.key = e.serial

\* The page shows what sudo does, but for the rule the installer wrote: it is
\* in no metadata, so the page says that sudo must authenticate.
PolicyShownIsReal ==
  \A u \in Accounts : window[u].stage = "shown" /\ holder = NoRun /\ cut = {} =>
    (window[u].policy <=> u \in managed) \/ u \in installer

\* Sudo: the keys and the policy together.
SecurityKeysAreSafe ==
  /\ AcceptedIsListed /\ SwitchNeverLocksOut /\ PolicyIsOwn /\ EnrollmentNamesKey
  /\ PolicyShownIsReal
================================================================================
