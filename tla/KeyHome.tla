-------------------------------- MODULE KeyHome --------------------------------
(***************************************************************************)
(* The Home page of the YubiKey manager (andiora-yubikey-manager:          *)
(* device_monitor.rs, home.rs, refresh_home_* in window.rs): what it shows *)
(* of the connected keys, from a full reading and a reading of the devices *)
(* that run in the background side by side, started by navigation, by      *)
(* udev events after a pause, and by a poll while Home is on screen.       *)
(***************************************************************************)
EXTENDS Integers, FiniteSets, Sequences

CONSTANTS
  Keys,         \* the security keys
  MostChanges,  \* bound: changes of the plugged keys and of the enrolments
  MostVisits    \* bound: full readings

\* What the constants must be.
KeyHomeConstants == MostChanges \in Nat /\ MostVisits \in Nat

VARIABLES
  plugged,      \* what sysfs lists
  configured,   \* the metadata and Git's settings enrol a key
  snapshot,     \* home_snapshot
  full,         \* home_refreshing: the readings of everything under way
  reading,      \* the readings of the devices under way, newest first
  pending,      \* home_device_refresh_pending
  debounce,     \* home_debounce_source: the 350 ms timer runs
  events,       \* udev's lines not yet read
  onHome,       \* the page is on screen and the window active
  changes, visits,
  fresh         \* history: a reading of the devices began and ended with nothing beside it

homeVars == <<plugged, configured, snapshot, full, reading, pending, debounce, events, onHome, changes, visits, fresh>>

NoSnapshot == [known |-> FALSE]
Unread == [read |-> FALSE, clean |-> FALSE]

Change ==
  /\ changes < MostChanges /\ changes' = changes + 1
  /\ \/ /\ \E k \in Keys : plugged' = IF k \in plugged THEN plugged \ {k} ELSE plugged \union {k}
        /\ events' = TRUE /\ fresh' = FALSE
        /\ reading' = [i \in DOMAIN reading |-> [reading[i] EXCEPT !.clean = FALSE]]
        /\ UNCHANGED configured
     \/ configured' = ~configured /\ UNCHANGED <<plugged, events, reading, fresh>>
  /\ UNCHANGED <<snapshot, full, pending, debounce, onHome, visits>>

(***************************************************************************)
(* refresh_home_full.                                                      *)
(***************************************************************************)
StartFull == full' = IF full = <<>> THEN <<Unread>> ELSE full

VisitHome ==
  /\ visits < MostVisits /\ visits' = visits + 1
  /\ onHome' = TRUE
  /\ StartFull
  /\ fresh' = IF full = <<>> THEN FALSE ELSE fresh
  /\ reading' = [i \in DOMAIN reading |-> [reading[i] EXCEPT !.clean = FALSE]]
  /\ UNCHANGED <<plugged, configured, snapshot, pending, debounce, events, changes>>

LeaveHome ==
  /\ onHome /\ onHome' = FALSE
  /\ UNCHANGED <<plugged, configured, snapshot, full, reading, pending, debounce, events, changes, visits, fresh>>

\* The metadata is read before the devices; both in one thread.
ReadEverything ==
  /\ full # <<>> /\ ~full[1].read
  /\ full' = <<[read |-> TRUE, known |-> TRUE, keys |-> plugged, configured |-> configured]>>
  /\ UNCHANGED <<plugged, configured, snapshot, reading, pending, debounce, events, onHome, changes, visits, fresh>>

EndFull ==
  /\ full # <<>> /\ full[1].read
  /\ snapshot' = [known |-> TRUE, keys |-> full[1].keys, configured |-> full[1].configured]
  /\ full' = <<>> /\ fresh' = FALSE
  /\ UNCHANGED <<plugged, configured, reading, pending, debounce, events, onHome, changes, visits>>

(***************************************************************************)
(* refresh_home_devices: one at a time, a second is remembered.            *)
(***************************************************************************)
Begun == [read |-> FALSE, clean |-> full = <<>>]

StartReading ==
  CASE reading # <<>> -> pending' = TRUE /\ UNCHANGED <<reading, full>>
    [] reading = <<>> /\ ~snapshot.known -> StartFull /\ UNCHANGED <<reading, pending>>
    [] OTHER -> reading' = <<Begun>> /\ UNCHANGED <<pending, full>>

\* Without the flag of a reading under way.
StartBeside ==
  IF snapshot.known /\ Len(reading) < 2 THEN reading' = <<Begun>> \o reading /\ UNCHANGED <<pending, full>>
  ELSE UNCHANGED <<reading, pending, full>>
RefreshDevices == StartReading

\* device_monitor reads a line: schedule_home_device_refresh restarts the timer.
UdevEvent ==
  /\ events /\ events' = FALSE
  /\ debounce' = TRUE
  /\ UNCHANGED <<plugged, configured, snapshot, full, reading, pending, onHome, changes, visits, fresh>>

DebounceElapses ==
  /\ debounce /\ debounce' = FALSE
  /\ RefreshDevices
  /\ UNCHANGED <<plugged, configured, snapshot, events, onHome, changes, visits, fresh>>

Poll ==
  /\ onHome
  /\ RefreshDevices
  /\ UNCHANGED <<plugged, configured, snapshot, debounce, events, onHome, changes, visits, fresh>>

ReadDevices ==
  /\ \E i \in DOMAIN reading :
       /\ ~reading[i].read
       /\ reading' = [reading EXCEPT ![i] = [read |-> TRUE, clean |-> @.clean, keys |-> plugged]]
  /\ UNCHANGED <<plugged, configured, snapshot, full, pending, debounce, events, onHome, changes, visits, fresh>>

EndReading ==
  /\ \E i \in DOMAIN reading :
       /\ reading[i].read
       /\ snapshot' = [snapshot EXCEPT !.keys = reading[i].keys]
       /\ fresh' = (fresh \/ reading[i].clean)
       /\ reading' = IF pending THEN <<Begun>> ELSE SubSeq(reading, 1, i - 1) \o SubSeq(reading, i + 1, Len(reading))
  /\ pending' = FALSE
  /\ UNCHANGED <<plugged, configured, full, debounce, events, onHome, changes, visits>>

Init ==
  /\ plugged = {} /\ configured \in BOOLEAN /\ snapshot = NoSnapshot
  /\ full = <<>> /\ reading = <<>> /\ pending = FALSE /\ debounce = FALSE /\ events = FALSE
  /\ onHome = FALSE /\ changes = 0 /\ visits = 0 /\ fresh = FALSE

Next ==
  \/ Change \/ VisitHome \/ LeaveHome \/ ReadEverything \/ EndFull
  \/ UdevEvent \/ DebounceElapses \/ Poll \/ ReadDevices \/ EndReading

Spec == Init /\ [][Next]_homeVars

(***************************************************************************)
(* Properties.                                                             *)
(***************************************************************************)
\* Once one reading of the devices has begun and ended with no change and no
\* full reading beside it, Home shows the keys that are plugged in, and
\* goes on doing so until the next change or full reading.
HomeIsFresh == fresh => snapshot.keys = plugged
================================================================================
