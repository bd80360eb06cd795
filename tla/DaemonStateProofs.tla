------------------------- MODULE DaemonStateProofs -------------------------
(***************************************************************************)
(* What state.json keeps, for any number of units and kernel sessions.     *)
(***************************************************************************)
EXTENDS DaemonState, TLAPS

(* A set of stops agrees with what was asked of the units, but for stops   *)
(* from before the file was lost.                                          *)
Agrees(S) == \A u \in Unit : /\ asked[u] = "stop"  => u \in S \cup torn
                             /\ asked[u] = "start" => u \notin S

(* The file agrees with what was asked whenever it is whole, and the       *)
(* memory of a running daemon always; when the daemon is off and the file  *)
(* is not whole, every stop is written off.                                *)
StopInv ==
  /\ file # NoFile => Agrees(file.userStopped)
  /\ phase # "off" => Agrees(userStopped)
  /\ phase = "off" => writer = "none"
  /\ phase = "off" /\ file = NoFile => Agrees({})

(* The boot sequence has run only in the session that a whole file and the *)
(* memory know, and a pending verdict that it is to run comes before it    *)
(* has.                                                                    *)
BootInv ==
  /\ booted <= 1
  /\ booted = 1 /\ file # NoFile => file.bootID = session
  /\ booted = 1 /\ phase # "off" => bootID = session
  /\ booted = 1 /\ phase = "off" => file # NoFile
  /\ writer = "stamp" => phase = "verify" /\ bootID = session
  /\ phase = "stamped" => bootID = session
  /\ phase = "stamped" /\ file # NoFile => file.bootID = session
  /\ writer # "none" => file = NoFile
  /\ (phase = "stamped" \/ writer = "stamp") /\ first => booted = 0

IInv == TypeOK /\ StopInv /\ BootInv

LEMMA InitIInv == Init => IInv
<1> SUFFICES ASSUME Init
             PROVE  IInv
  OBVIOUS
<1>1. TypeOK
  <2>1. 1 \in Session /\ 0 \in Nat
    BY StateAssumption DEF Session
  <2> QED
    BY <2>1 DEF Init, TypeOK
<1>2. StopInv
  BY DEF Init, StopInv, Agrees, Name
<1>3. BootInv
  BY DEF Init, BootInv
<1> QED
  BY <1>1, <1>2, <1>3 DEF IInv

LEMMA NextIInv == IInv /\ [Next]_vars => IInv'
<1> SUFFICES ASSUME IInv, [Next]_vars
             PROVE  IInv'
  OBVIOUS
<1> USE StateAssumption DEF IInv, Session, Content, Name
<1>1. ASSUME NEW units \in SUBSET Unit, Start(units)
      PROVE  IInv'
  <2>1. TypeOK'
    BY <1>1 DEF Start, TypeOK, Loaded
  <2>2. Agrees(Loaded.userStopped) /\ Loaded.userStopped \subseteq Name
    BY <1>1 DEF Start, TypeOK, StopInv, Loaded, Agrees
  <2>3. StopInv'
    <3>1. \A n \in Name : asked'[n] = IF n \in units THEN asked[n] ELSE "none"
      BY <1>1 DEF Start
    <3>2. file' = file /\ torn' = torn /\ phase' = "verify"
          /\ userStopped' = Loaded.userStopped \cap units
      BY <1>1 DEF Start
    <3> QED
      BY <2>2, <3>1, <3>2 DEF StopInv, Agrees
  <2>4. BootInv'
    BY <1>1 DEF Start, TypeOK, StopInv, BootInv, Loaded
  <2> QED
    BY <2>1, <2>3, <2>4
<1>2. ASSUME NEW units \in SUBSET Unit, Reload(units)
      PROVE  IInv'
  BY <1>2 DEF Reload, TypeOK, StopInv, BootInv, Agrees, history
<1>3. ASSUME NEW names \in Nameable, NEW stopped \in BOOLEAN, Ask(names, stopped)
      PROVE  IInv'
  <2>0. names \subseteq Name
    <3>1. names \subseteq known \/ \E b \in Bare : names = {b}
      BY <1>3 DEF Nameable
    <3> QED
      BY <3>1 DEF TypeOK
  <2>1. TypeOK'
    BY <1>3, <2>0 DEF Ask, Truncate, TypeOK
  <2>2. StopInv'
    BY <1>3, <2>0 DEF Ask, Truncate, TypeOK, StopInv, Agrees
  <2>3. BootInv'
    BY <1>3 DEF Ask, Truncate, TypeOK, BootInv
  <2> QED
    BY <2>1, <2>2, <2>3
<1>4. CASE Asked
  <2>1. TypeOK'
    BY <1>4 DEF Asked, Write, WriteFails, TypeOK, memory, history
  <2>2. file' # NoFile => file'.userStopped = userStopped /\ file'.bootID = bootID
    BY <1>4, <2>1 DEF Asked, Write, WriteFails, TypeOK, BootInv, memory
  <2>3. StopInv' /\ BootInv'
    BY <1>4, <2>2 DEF Asked, Write, WriteFails, TypeOK, StopInv, BootInv, Agrees,
       memory, history
  <2> QED
    BY <2>1, <2>3
<1>5. CASE BackupBegins
  BY <1>5 DEF BackupBegins, Truncate, TypeOK, StopInv, BootInv, Agrees, memory, history
<1>6. CASE Stamp
  <2>1. TypeOK'
    <3>1. session \in Nat
      BY DEF TypeOK
    <3> QED
      BY <1>6, <3>1 DEF Stamp, Truncate, TypeOK, history
  <2>2. StopInv'
    BY <1>6 DEF Stamp, Truncate, TypeOK, StopInv, Agrees, history
  <2>3. BootInv'
    <3>1. first' => bootID # session
      BY <1>6 DEF Stamp
    <3>2. booted = 1 => bootID = session
      BY <1>6 DEF Stamp, BootInv
    <3>3. booted = 0 \/ booted = 1
      BY DEF TypeOK, BootInv
    <3> QED
      BY <1>6, <3>1, <3>2, <3>3 DEF Stamp, Truncate, TypeOK, BootInv, history
  <2> QED
    BY <2>1, <2>2, <2>3
<1>7. CASE Stamped
  <2>1. TypeOK'
    BY <1>7 DEF Stamped, Write, WriteFails, TypeOK, memory, history
  <2>2. file' # NoFile => file'.userStopped = userStopped /\ file'.bootID = bootID
    BY <1>7, <2>1 DEF Stamped, Write, WriteFails, TypeOK, BootInv, memory
  <2>3. StopInv' /\ BootInv'
    BY <1>7, <2>2 DEF Stamped, Write, WriteFails, TypeOK, StopInv, BootInv, Agrees,
       memory, history
  <2> QED
    BY <2>1, <2>3
<1>8. CASE Boot
  BY <1>8 DEF Boot, TypeOK, StopInv, BootInv, Agrees, memory
<1>9. ASSUME NEW crash \in BOOLEAN, Exit(crash)
      PROVE  IInv'
  <2>1. TypeOK' /\ BootInv'
    BY <1>9 DEF Exit, TypeOK, StopInv, BootInv, memory
  <2>2. StopInv'
    <3>1. CASE file = NoFile
      BY <1>9, <3>1 DEF Exit, TypeOK, StopInv, Agrees
    <3>2. CASE file # NoFile
      BY <1>9, <3>2 DEF Exit, TypeOK, StopInv, Agrees
    <3> QED
      BY <3>1, <3>2
  <2> QED
    BY <2>1, <2>2
<1>10. CASE HostBoots
  BY <1>10 DEF HostBoots, TypeOK, StopInv, BootInv, Agrees, memory
<1>11. CASE UNCHANGED vars
  BY <1>11 DEF vars, TypeOK, StopInv, BootInv, Agrees
<1> QED
  BY <1>1, <1>2, <1>3, <1>4, <1>5, <1>6, <1>7, <1>8, <1>9, <1>10, <1>11 DEF Next

(* Every reachable state satisfies the inductive invariant.                *)
LEMMA Invariant == Spec => []IInv
BY InitIInv, NextIInv, PTL DEF Spec

(* SetUserStopped, persist and load together: the daemon goes by the       *)
(* user's last word on a unit through every crash and restart, but for     *)
(* stops from before the daemon ended with state.json cut off.             *)
THEOREM Remembered == Spec => []StopsAreRemembered
<1>1. IInv => StopsAreRemembered
  BY DEF IInv, TypeOK, StopInv, Agrees, StopsAreRemembered
<1> QED
  BY Invariant, <1>1, PTL

(* IsFirstStartAfterBoot: the boot sequence runs at most once per kernel   *)
(* session.                                                                *)
THEOREM BootedOnce == Spec => []BootOncePerSession
<1>1. IInv => BootOncePerSession
  BY DEF IInv, BootInv, BootOncePerSession
<1> QED
  BY Invariant, <1>1, PTL
(* The state in memory and the file keep their types through crashes at    *)
(* any step of a write.                                                    *)
THEOREM TypeCorrect == Spec => []TypeOK
<1>1. IInv => TypeOK
  BY DEF IInv
<1> QED
  BY Invariant, <1>1, PTL
=============================================================================
