----------------------------- MODULE HalProofs ------------------------------
(***************************************************************************)
(* Proofs about five parts of the HAL.  FileTable, for every size of the   *)
(* table and every set of devices: the table keeps its ranges, the streams *)
(* stay usable, no descriptor is leaked, and a lock holds and has one      *)
(* owner.  Cache, for memories, caches and lines of every size: no word is *)
(* read or executed from a stale copy.  Alarms, for any number of them and *)
(* a clock of any width: each is called in its tick.  Interrupts, for any  *)
(* lines and routines: dispatch, sections and nested masks stay sound.     *)
(* Clocks, for every rate and width: time goes on, and a timestamp was     *)
(* a count of the timer.                                                   *)
(***************************************************************************)
EXTENDS FileTable, Cache, Alarms, Interrupts, Clocks, SequenceTheorems, TLAPS

Excl == "ALT_FD_EXCL"

\* Until the streams are redirected, nothing is open but them.
NothingYet ==
  stage # "main" =>
    /\ dev = [f \in Fds |-> IF f \in Streams THEN Null ELSE Free]
    /\ flags = [f \in Fds |-> {}] /\ max_fd = -1 /\ held = {}

\* Locks and the mark of a device are of descriptors that lead to a device.
OnDevices ==
  \A f \in Fds : Excl \in flags[f] \/ "ALT_FD_DEV" \in flags[f] => dev[f] \in Device

(***************************************************************************)
(* A descriptor that has a device locked and shares it is below the high-  *)
(* water mark, where the search of alt_fd_lock() finds it; one at the mark *)
(* is alone.                                                               *)
(***************************************************************************)
SharedIsBelow ==
  \A f, g \in Fds : Excl \in flags[f] /\ dev[g] = dev[f] /\ f # g => f < max_fd

Inv ==
  /\ TypeOK /\ NothingYet /\ OnDevices /\ SharedIsBelow
  /\ OneLock /\ NoLeak /\ MarkIsHigh /\ StreamsStay

LEMMA Constants ==
  /\ MaxFd \in Nat /\ MaxFd >= 4 /\ Streams \subseteq Fds /\ Fds \subseteq Nat
  /\ Null \in Device /\ Free \notin Device /\ Free \notin FileSystem
  /\ Device \cap FileSystem = {}
  /\ \A f \in Streams : Std[f] \in Device
  /\ OpenModes \subseteq Modes
  /\ Excl \notin UserFlags /\ "ALT_FD_DEV" \notin UserFlags
<1>1. MaxFd \in Nat /\ MaxFd >= 4 /\ Streams \subseteq Fds /\ Fds \subseteq Nat
  BY FdAssumption, SMT DEF Streams, Fds
<1>2. OpenModes \subseteq Modes /\ Excl \notin UserFlags
      /\ "ALT_FD_DEV" \notin UserFlags
  BY FlagAssumption DEF Modes, Excl
<1>3. /\ Null \in Device /\ Free \notin Device /\ Free \notin FileSystem
      /\ Device \cap FileSystem = {} /\ \A f \in Streams : Std[f] \in Device
  BY DeviceAssumption DEF Streams
<1> QED BY <1>1, <1>2, <1>3

\* The mark never falls, and is at least the descriptor it is moved for.
LEMMA HighWaterUp ==
  ASSUME TypeOK, NEW f \in Fds
  PROVE  /\ HighWater(f) \in -1 .. MaxFd - 1
         /\ HighWater(f) >= max_fd /\ HighWater(f) >= f
         /\ f <= max_fd => HighWater(f) = max_fd
BY Constants, SMT DEF TypeOK, HighWater, Fds

LEMMA InitInv == Init => Inv
<1> SUFFICES ASSUME Init PROVE Inv
  OBVIOUS
<1> USE Constants
<1>1. \A f \in Fds : dev[f] # Free <=> f \in Streams
  BY DEF Init
<1>2. TypeOK
  BY SMT DEF Init, TypeOK, Modes
<1>3. NoLeak
  <2>1. \A f \in Fds : f > 2 => f \notin Streams
    BY SMT DEF Streams
  <2> QED BY <1>1, <2>1 DEF NoLeak, Init
<1> QED BY <1>2, <1>3 DEF Init, Inv, NothingYet, OnDevices, SharedIsBelow,
           OneLock, MarkIsHigh, StreamsStay

-----------------------------------------------------------------------------
(* Startup.                                                                *)

LEMMA RegisterInv == Inv /\ (Register \/ SysInitEnds) => Inv'
BY DEF Inv, Register, SysInitEnds, TypeOK, NothingYet, OnDevices, SharedIsBelow,
       OneLock, NoLeak, MarkIsHigh, StreamsStay, CanRead, CanWrite, IsTty

LEMMA RedirectInv ==
  ASSUME Inv, IoRedirect
  PROVE  Inv'
<1> USE Constants
<1>1. /\ dev = [f \in Fds |-> IF f \in Streams THEN Null ELSE Free]
      /\ flags = [f \in Fds |-> {}] /\ max_fd = -1 /\ held = {}
  BY DEF Inv, NothingYet, IoRedirect
<1>2. /\ dev' = [f \in Fds |-> IF f \in Streams THEN Std[f] ELSE Free]
      /\ flags' = [f \in Fds |-> IF f \in Streams THEN {"ALT_FD_DEV"} ELSE {}]
      /\ mode' = [f \in Fds |-> CASE f = 0        -> "O_RDONLY"
                                  [] f \in {1, 2} -> "O_WRONLY"
                                  [] OTHER        -> mode[f]]
      /\ max_fd' = 3 /\ held' = {} /\ stage' = "main" /\ known' = known
  BY <1>1, SMT DEF IoRedirect, HighWater
<1>3. TypeOK'
  <2>1. mode' \in [Fds -> Modes]
    BY <1>2 DEF Inv, TypeOK, Modes
  <2>2. max_fd' \in -1 .. MaxFd - 1
    BY <1>2, SMT
  <2> QED BY <1>2, <2>1, <2>2 DEF Inv, TypeOK
<1>4. OnDevices' /\ SharedIsBelow' /\ OneLock'
  BY <1>2 DEF OnDevices, SharedIsBelow, OneLock, Excl
<1>5. NoLeak'
  <2>1. \A f \in Fds : f > 2 => f \notin Streams
    BY SMT DEF Streams
  <2> QED BY <1>2, <2>1 DEF NoLeak
<1>6. MarkIsHigh'
  BY <1>2, SMT DEF MarkIsHigh, Streams
<1>7. StreamsStay'
  <2>1. 0 \in Streams /\ 1 \in Streams /\ 2 \in Streams
    BY SMT DEF Streams
  <2>2. \A f \in Streams : dev'[f] = Std[f]
    BY <1>2
  <2>3. mode'[0] = "O_RDONLY" /\ mode'[1] = "O_WRONLY" /\ mode'[2] = "O_WRONLY"
    BY <1>2, <2>1
  <2> QED BY <2>2, <2>3 DEF StreamsStay, CanRead, CanWrite, IsTty
<1> QED BY <1>2, <1>3, <1>4, <1>5, <1>6, <1>7 DEF Inv, NothingYet

-----------------------------------------------------------------------------
(* open().                                                                 *)

\* What alt_get_fd() finds is none of the streams, and leads nowhere.
LEMMA GetsIsNew ==
  ASSUME Inv, stage = "main", NEW f \in Fds, Gets(f)
  PROVE  f \notin Streams /\ dev[f] = Free /\ Excl \notin flags[f] /\ f > 2
<1>1. f \notin Streams /\ dev[f] = Free /\ Excl \notin flags[f]
  BY Constants DEF Inv, Gets, StreamsStay, OnDevices
<1>2. f > 2
  BY <1>1, SMT DEF Fds, Streams
<1> QED BY <1>1, <1>2

LEMMA OpenInv ==
  ASSUME Inv, NEW d \in Device \cup FileSystem, NEW f \in Fds,
         NEW m \in OpenModes, NEW s \in SUBSET UserFlags, Open(d, f, m, s)
  PROVE  Inv'
<1> USE Constants
<1>1. stage = "main" /\ Gets(f)
  BY DEF Open
<1>2. f \notin Streams /\ dev[f] = Free /\ Excl \notin flags[f] /\ f > 2
  BY <1>1, GetsIsNew
<1>3. /\ dev' = [dev EXCEPT ![f] = d] /\ mode' = [mode EXCEPT ![f] = m]
      /\ max_fd' = HighWater(f) /\ held' = held \cup {f}
      /\ known' = known /\ stage' = stage
  BY DEF Open
<1>4. flags' = [flags EXCEPT ![f] =
                  s \cup (IF d \in Device THEN {"ALT_FD_DEV"} ELSE {})]
  BY DEF Open
<1>5. /\ \A g \in Fds : dev'[g] = IF g = f THEN d ELSE dev[g]
      /\ \A g \in Fds : g # f => flags'[g] = flags[g] /\ mode'[g] = mode[g]
      /\ flags'[f] = s \cup (IF d \in Device THEN {"ALT_FD_DEV"} ELSE {})
      /\ Excl \notin flags'[f]
  BY <1>3, <1>4 DEF Inv, TypeOK, Excl
<1>6. /\ max_fd' \in -1 .. MaxFd - 1 /\ max_fd' >= max_fd /\ max_fd' >= f
  BY <1>3, HighWaterUp DEF Inv
<1>7. \A g \in Fds : dev[g] # Free => g <= max_fd
  BY <1>1 DEF Inv, MarkIsHigh
<1>8. TypeOK'
  <2>1. dev' \in [Fds -> Device \cup FileSystem \cup {Free}]
        /\ mode' \in [Fds -> Modes]
    BY <1>3 DEF Inv, TypeOK
  <2>2. flags' \in [Fds -> SUBSET (UserFlags \cup {"ALT_FD_EXCL", "ALT_FD_DEV"})]
    BY <1>4 DEF Inv, TypeOK
  <2> QED BY <1>3, <1>6, <2>1, <2>2 DEF Inv, TypeOK
<1>9. OnDevices'
  BY <1>5 DEF Inv, OnDevices, Excl
<1>10. SharedIsBelow'
  <2> SUFFICES ASSUME NEW g \in Fds, NEW h \in Fds,
                      Excl \in flags'[g], dev'[h] = dev'[g], g # h
               PROVE  g < max_fd'
    BY DEF SharedIsBelow
  <2>1. g # f /\ Excl \in flags[g] /\ dev'[g] = dev[g] /\ dev[g] \in Device
    BY <1>5 DEF Inv, OnDevices
  <2>2. CASE h = f
    <3>1. d \in Device /\ dev[g] = d
      BY <2>1, <2>2, <1>5
    <3>2. g <= HighWater(f)
      BY <2>1, <1>7, <1>3, <1>6, SMT DEF Inv, TypeOK, Fds
    <3>3. FileLocked(d, f)
      BY <3>1, <3>2, <2>1 DEF FileLocked, Excl
    <3> QED BY <3>1, <3>3 DEF Open
  <2>3. CASE h # f
    <3>1. g < max_fd
      BY <2>1, <2>3, <1>5 DEF Inv, SharedIsBelow
    <3> QED BY <3>1, <1>6, SMT DEF Inv, TypeOK, Fds
  <2> QED BY <2>2, <2>3
<1>11. OneLock'
  BY <1>5 DEF Inv, OneLock, Excl
<1>12. NoLeak'
  <2>1. \A g \in Fds : (g > 2 /\ dev'[g] # Free)
                         <=> ((g > 2 /\ dev[g] # Free) \/ g = f)
    BY <1>2, <1>5
  <2> QED BY <2>1, <1>2, <1>3 DEF Inv, NoLeak
<1>13. MarkIsHigh'
  BY <1>5, <1>6, <1>7, SMT DEF MarkIsHigh, Inv, TypeOK, Fds
<1>14. StreamsStay'
  <2>1. 0 \in Streams /\ 1 \in Streams /\ 2 \in Streams
    BY SMT DEF Streams
  <2> QED BY <1>1, <1>2, <1>5, <2>1
          DEF Inv, StreamsStay, CanRead, CanWrite, IsTty
<1> QED BY <1>1, <1>3, <1>8, <1>9, <1>10, <1>11, <1>12, <1>13, <1>14
        DEF Inv, NothingYet

LEMMA OpenFailsInv ==
  ASSUME Inv, NEW d \in Device \cup FileSystem, NEW f \in Fds, OpenFails(d, f)
  PROVE  Inv'
<1> USE Constants
<1>1. stage = "main" /\ Gets(f)
  BY DEF OpenFails
<1>2. f \notin Streams /\ dev[f] = Free /\ Excl \notin flags[f] /\ f > 2
  BY <1>1, GetsIsNew
<1>3. /\ dev' = dev /\ mode' = [mode EXCEPT ![f] = "O_RDONLY"]
      /\ flags' = [flags EXCEPT ![f] = {}] /\ max_fd' = HighWater(f)
      /\ held' = held /\ known' = known /\ stage' = stage
  BY DEF OpenFails
<1>4. /\ \A g \in Fds : g # f => flags'[g] = flags[g] /\ mode'[g] = mode[g]
      /\ flags'[f] = {}
  BY <1>3 DEF Inv, TypeOK
<1>5. max_fd' \in -1 .. MaxFd - 1 /\ max_fd' >= max_fd
  BY <1>3, HighWaterUp DEF Inv
<1>6. TypeOK'
  <2>1. mode' \in [Fds -> Modes]
    BY <1>3 DEF Inv, TypeOK, Modes
  <2>2. flags' \in [Fds -> SUBSET (UserFlags \cup {"ALT_FD_EXCL", "ALT_FD_DEV"})]
    BY <1>3 DEF Inv, TypeOK
  <2> QED BY <1>3, <1>5, <2>1, <2>2 DEF Inv, TypeOK
<1>7. OnDevices' /\ OneLock' /\ NoLeak'
  BY <1>3, <1>4 DEF Inv, OnDevices, OneLock, NoLeak, Excl
<1>8. SharedIsBelow'
  <2> SUFFICES ASSUME NEW g \in Fds, NEW h \in Fds,
                      Excl \in flags'[g], dev[h] = dev[g], g # h
               PROVE  g < max_fd'
    BY <1>3 DEF SharedIsBelow
  <2>1. g < max_fd
    BY <1>4 DEF Inv, SharedIsBelow
  <2> QED BY <2>1, <1>5, SMT DEF Inv, TypeOK, Fds
<1>9. MarkIsHigh'
  BY <1>1, <1>3, <1>5, SMT DEF MarkIsHigh, Inv, TypeOK, Fds
<1>10. StreamsStay'
  <2>1. 0 \in Streams /\ 1 \in Streams /\ 2 \in Streams
    BY SMT DEF Streams
  <2> QED BY <1>1, <1>2, <1>3, <1>4, <2>1
          DEF Inv, StreamsStay, CanRead, CanWrite, IsTty
<1> QED BY <1>1, <1>3, <1>6, <1>7, <1>8, <1>9, <1>10 DEF Inv, NothingYet

-----------------------------------------------------------------------------
(* close().                                                                *)

LEMMA CloseInv ==
  ASSUME Inv, NEW f \in Fds, Close(f)
  PROVE  Inv'
<1> USE Constants
<1>1. stage = "main" /\ stage' = stage /\ known' = known /\ max_fd' = max_fd
      /\ held' = held \ {f}
  BY DEF Close
<1>2. CASE f > 2
  <2>1. /\ dev' = [dev EXCEPT ![f] = Free] /\ flags' = [flags EXCEPT ![f] = {}]
        /\ mode' = [mode EXCEPT ![f] = "O_RDONLY"]
    BY <1>2 DEF Close, Release
  <2>2. /\ \A g \in Fds : dev'[g] = IF g = f THEN Free ELSE dev[g]
        /\ \A g \in Fds : g # f => flags'[g] = flags[g] /\ mode'[g] = mode[g]
        /\ flags'[f] = {}
    BY <2>1 DEF Inv, TypeOK
  <2>3. f \notin Streams
    BY <1>2, SMT DEF Streams
  <2>4. TypeOK'
    <3>1. dev' \in [Fds -> Device \cup FileSystem \cup {Free}]
      BY <2>1 DEF Inv, TypeOK
    <3>2. flags' \in [Fds -> SUBSET (UserFlags \cup {"ALT_FD_EXCL", "ALT_FD_DEV"})]
      BY <2>1 DEF Inv, TypeOK
    <3>3. mode' \in [Fds -> Modes]
      BY <2>1 DEF Inv, TypeOK, Modes
    <3> QED BY <1>1, <3>1, <3>2, <3>3 DEF Inv, TypeOK
  <2>5. OnDevices' /\ OneLock'
    BY <2>2 DEF Inv, OnDevices, OneLock, Excl
  <2>6. SharedIsBelow'
    <3> SUFFICES ASSUME NEW g \in Fds, NEW h \in Fds,
                        Excl \in flags'[g], dev'[h] = dev'[g], g # h
                 PROVE  g < max_fd
      BY <1>1 DEF SharedIsBelow
    <3>1. g # f /\ Excl \in flags[g] /\ dev[g] \in Device
      BY <2>2 DEF Inv, OnDevices
    <3>2. h # f
      BY <3>1, <2>2
    <3> QED BY <3>1, <3>2, <2>2 DEF Inv, SharedIsBelow
  <2>7. NoLeak'
    BY <1>1, <1>2, <2>2, <2>3 DEF Inv, NoLeak
  <2>8. MarkIsHigh'
    BY <1>1, <2>2 DEF Inv, MarkIsHigh
  <2>9. StreamsStay'
    <3>1. 0 \in Streams /\ 1 \in Streams /\ 2 \in Streams
      BY SMT DEF Streams
    <3> QED BY <1>1, <2>2, <2>3, <3>1
            DEF Inv, StreamsStay, CanRead, CanWrite, IsTty
  <2> QED BY <1>1, <2>4, <2>5, <2>6, <2>7, <2>8, <2>9 DEF Inv, NothingYet
<1>3. CASE ~ (f > 2)
  <2>1. UNCHANGED <<dev, mode, flags>>
    BY <1>3 DEF Close, Release
  <2>2. f \in Streams
    BY <1>3, SMT DEF Streams, Fds
  <2>3. TypeOK' /\ NoLeak'
    BY <1>1, <2>1, <2>2 DEF Inv, TypeOK, NoLeak
  <2> QED BY <1>1, <2>1, <2>3
          DEF Inv, NothingYet, OnDevices, SharedIsBelow, OneLock, MarkIsHigh,
              StreamsStay, CanRead, CanWrite, IsTty
<1> QED BY <1>2, <1>3

-----------------------------------------------------------------------------
(* ioctl() and fcntl(): only the flags of one descriptor change.           *)

LEMMA FlagsOnly ==
  ASSUME Inv, stage = "main", NEW f \in Fds,
         NEW w \in SUBSET (UserFlags \cup {"ALT_FD_EXCL", "ALT_FD_DEV"}),
         flags' = [flags EXCEPT ![f] = w],
         UNCHANGED <<dev, mode, max_fd, known, stage, held>>,
         "ALT_FD_DEV" \in w => "ALT_FD_DEV" \in flags[f],
         Excl \in w /\ Excl \notin flags[f] =>
           "ALT_FD_DEV" \in flags[f] /\ ~ Shared(f)
  PROVE  Inv'
<1> USE Constants
<1>1. /\ \A g \in Fds : g # f => flags'[g] = flags[g]
      /\ flags'[f] = w
  BY DEF Inv, TypeOK
<1>2. TypeOK' /\ NoLeak' /\ MarkIsHigh' /\ StreamsStay' /\ NothingYet'
  BY DEF Inv, TypeOK, NoLeak, MarkIsHigh, StreamsStay, NothingYet, CanRead,
         CanWrite, IsTty
<1>3. OnDevices'
  BY <1>1 DEF Inv, OnDevices
<1>4. ASSUME NEW g \in Fds, g # f, dev[g] = dev[f],
             Excl \in w, Excl \notin flags[f]
      PROVE  f < max_fd /\ Excl \notin flags[g]
  <2>1. dev[f] \in Device /\ ~ (g < max_fd)
    BY <1>4 DEF Inv, OnDevices, Shared
  <2>2. dev[f] # Free /\ dev[g] # Free
    BY <1>4, <2>1
  <2>3. g <= max_fd /\ f <= max_fd
    BY <2>2 DEF Inv, MarkIsHigh
  <2>4. g = max_fd /\ f < max_fd
    BY <1>4, <2>1, <2>3, SMT DEF Inv, TypeOK, Fds
  <2>5. Excl \notin flags[g]
    BY <1>4, <2>1 DEF Inv, SharedIsBelow
  <2> QED BY <2>4, <2>5
<1>5. SharedIsBelow'
  <2> SUFFICES ASSUME NEW g \in Fds, NEW h \in Fds,
                      Excl \in flags'[g], dev[h] = dev[g], g # h
               PROVE  g < max_fd
    BY DEF SharedIsBelow
  <2>1. CASE Excl \in flags[g]
    BY <2>1 DEF Inv, SharedIsBelow
  <2>2. CASE Excl \notin flags[g]
    <3>1. g = f
      BY <2>2, <1>1
    <3> QED BY <2>2, <3>1, <1>1, <1>4
  <2> QED BY <2>1, <2>2
<1>6. OneLock'
  <2> SUFFICES ASSUME NEW g \in Fds, NEW h \in Fds, dev[g] = dev[h], g # h,
                      Excl \in flags'[g], Excl \in flags'[h]
               PROVE  FALSE
    BY DEF OneLock, Excl
  <2>1. ~ (Excl \in flags[g] /\ Excl \in flags[h])
    BY DEF Inv, OneLock, Excl
  <2>2. CASE Excl \notin flags[g]
    <3>1. g = f
      BY <2>2, <1>1
    <3>2. Excl \in flags[h]
      BY <3>1, <1>1
    <3> QED BY <2>2, <3>1, <3>2, <1>1, <1>4
  <2>3. CASE Excl \notin flags[h]
    <3>1. h = f
      BY <2>3, <1>1
    <3>2. Excl \in flags[g]
      BY <3>1, <1>1
    <3> QED BY <2>3, <3>1, <3>2, <1>1, <1>4
  <2> QED BY <2>1, <2>2, <2>3
<1> QED BY <1>2, <1>3, <1>5, <1>6 DEF Inv

LEMMA IoctlInv ==
  ASSUME Inv, NEW f \in Fds, Ioctl(f)
  PROVE  Inv'
<1>1. flags[f] \in SUBSET (UserFlags \cup {"ALT_FD_EXCL", "ALT_FD_DEV"})
  BY DEF Inv, TypeOK
<1>2. CASE Lock(f)
  <2> DEFINE w == flags[f] \cup {"ALT_FD_EXCL"}
  <2>1. w \in SUBSET (UserFlags \cup {"ALT_FD_EXCL", "ALT_FD_DEV"})
        /\ flags' = [flags EXCEPT ![f] = w]
    BY <1>1, <1>2 DEF Lock
  <2>2. "ALT_FD_DEV" \in w => "ALT_FD_DEV" \in flags[f]
    OBVIOUS
  <2> HIDE DEF w
  <2> QED BY <1>2, <2>1, <2>2, FlagsOnly DEF Lock, Ioctl
<1>3. CASE Unlock(f)
  <2> DEFINE w == flags[f] \ {"ALT_FD_EXCL"}
  <2>1. w \in SUBSET (UserFlags \cup {"ALT_FD_EXCL", "ALT_FD_DEV"})
        /\ flags' = [flags EXCEPT ![f] = w]
    BY <1>1, <1>3 DEF Unlock
  <2>2. ("ALT_FD_DEV" \in w => "ALT_FD_DEV" \in flags[f]) /\ Excl \notin w
    BY DEF Excl
  <2> HIDE DEF w
  <2> QED BY <1>3, <2>1, <2>2, FlagsOnly DEF Unlock, Ioctl
<1> QED BY <1>2, <1>3 DEF Ioctl

LEMMA SetFlagsInv ==
  ASSUME Inv, NEW f \in Fds, NEW s \in SUBSET UserFlags, SetFlags(f, s)
  PROVE  Inv'
<1> DEFINE w == (flags[f] \ UserFlags) \cup s
<1>1. flags[f] \in SUBSET (UserFlags \cup {"ALT_FD_EXCL", "ALT_FD_DEV"})
  BY DEF Inv, TypeOK
<1>2. w \in SUBSET (UserFlags \cup {"ALT_FD_EXCL", "ALT_FD_DEV"})
      /\ flags' = [flags EXCEPT ![f] = w]
  BY <1>1 DEF SetFlags
<1>3. /\ "ALT_FD_DEV" \in w => "ALT_FD_DEV" \in flags[f]
      /\ Excl \in w => Excl \in flags[f]
  BY Constants
<1> HIDE DEF w
<1> QED BY <1>2, <1>3, FlagsOnly DEF SetFlags

-----------------------------------------------------------------------------

LEMMA NextInv == Inv /\ [Next]_vars => Inv'
<1> SUFFICES ASSUME Inv, [Next]_vars PROVE Inv'
  OBVIOUS
<1>1. CASE Register \/ SysInitEnds
  BY <1>1, RegisterInv
<1>2. CASE IoRedirect
  BY <1>2, RedirectInv
<1>3. ASSUME NEW d \in Device \cup FileSystem, NEW f \in Fds,
             NEW m \in OpenModes, NEW s \in SUBSET UserFlags, Open(d, f, m, s)
      PROVE  Inv'
  BY <1>3, OpenInv
<1>4. ASSUME NEW d \in Device \cup FileSystem, NEW f \in Fds, OpenFails(d, f)
      PROVE  Inv'
  BY <1>4, OpenFailsInv
<1>5. ASSUME NEW f \in Fds, Close(f) \/ Ioctl(f)
      PROVE  Inv'
  BY <1>5, CloseInv, IoctlInv
<1>6. ASSUME NEW f \in Fds, NEW s \in SUBSET UserFlags, SetFlags(f, s)
      PROVE  Inv'
  BY <1>6, SetFlagsInv
<1>7. CASE UNCHANGED vars
  BY <1>7 DEF vars, Inv, TypeOK, NothingYet, OnDevices, SharedIsBelow, OneLock,
         NoLeak, MarkIsHigh, StreamsStay, CanRead, CanWrite, IsTty
<1> QED BY <1>1, <1>2, <1>3, <1>4, <1>5, <1>6, <1>7 DEF Next

\* The table of descriptors keeps its ranges through every sequence of calls.
THEOREM FileTableTypes == Spec => []TypeOK
<1>1. Inv => TypeOK
  BY DEF Inv
<1> QED BY InitInv, NextInv, <1>1, PTL DEF Spec

\* At most one descriptor has a device locked (alt_fd_lock()), although the
\* search leaves out the highest descriptor.
THEOREM OneLockOnly == Spec => []OneLock
<1>1. Inv => OneLock
  BY DEF Inv
<1> QED BY InitInv, NextInv, <1>1, PTL DEF Spec

\* No call that fails keeps a descriptor (open() and alt_release_fd()).
THEOREM NothingLeaks == Spec => []NoLeak
<1>1. Inv => NoLeak
  BY DEF Inv
<1> QED BY InitInv, NextInv, <1>1, PTL DEF Spec

\* Once redirected, the streams stay usable, and the mark stays above all
\* that is open (alt_io_redirect(), close()).
THEOREM StreamsAndMark == Spec => [](StreamsStay /\ MarkIsHigh)
<1>1. Inv => StreamsStay /\ MarkIsHigh
  BY DEF Inv
<1> QED BY InitInv, NextInv, <1>1, PTL DEF Spec

\* The descriptors agree after every sequence of calls: the four together.
THEOREM DescriptorsAlwaysAgree == Spec => []DescriptorsAgree
<1>1. TypeOK /\ OneLock /\ NoLeak /\ StreamsStay /\ MarkIsHigh => DescriptorsAgree
  BY DEF DescriptorsAgree
<1> QED BY <1>1, FileTableTypes, OneLockOnly, NothingLeaks, StreamsAndMark, PTL

\* While a device is locked nobody else gets it open (alt_file_locked()).
THEOREM LocksHold == Spec => LockHolds
<1> DEFINE A == \A d \in Device :
                  Locked(d) /\ Locked(d)' => Users(d)' \subseteq Users(d)
<1>1. Inv /\ [Next]_vars => [A]_vars
  <2> SUFFICES ASSUME Inv, Next, NEW d \in Device, Locked(d),
                      NEW g \in Fds, dev'[g] = d
               PROVE  dev[g] = d
    BY DEF Users
  <2>1. PICK h \in Fds : dev[h] = d /\ Excl \in flags[h]
    BY DEF Locked, Users, Excl
  <2>2. stage = "main"
    BY <2>1, Constants DEF Inv, NothingYet
  <2>3. ASSUME NEW e \in Device \cup FileSystem, NEW f \in Fds,
               NEW m \in OpenModes, NEW s \in SUBSET UserFlags, Open(e, f, m, s)
        PROVE  dev[g] = d
    <3>1. CASE e = d /\ g = f
      <4>1. h <= max_fd
        BY <2>1, <2>2, Constants DEF Inv, MarkIsHigh
      <4>2. h <= HighWater(f)
        BY <4>1, HighWaterUp, SMT DEF Inv, TypeOK, Fds
      <4>3. FileLocked(d, f)
        BY <4>2, <2>1 DEF FileLocked, Excl
      <4> QED BY <3>1, <4>3, <2>3 DEF Open
    <3>2. CASE ~ (e = d /\ g = f)
      BY <2>3, <3>2 DEF Open, Inv, TypeOK
    <3> QED BY <3>1, <3>2
  <2>4. ASSUME NEW f \in Fds, Close(f)
        PROVE  dev[g] = d
    BY <2>4, Constants DEF Close, Release, Inv, TypeOK
  <2>5. CASE UNCHANGED dev
    BY <2>5
  <2> QED BY <2>2, <2>3, <2>4, <2>5
          DEF Next, Register, SysInitEnds, IoRedirect, OpenFails, Ioctl, Lock,
              Unlock, SetFlags
<1> QED BY InitInv, NextInv, <1>1, PTL DEF Spec, LockHolds
-----------------------------------------------------------------------------
(* The caches.                                                             *)

Place(a, n) == LineOf(a) % n

\* Entry e holds the line l.
HoldsLine(e, l) == e \in [line : {l}, data : [WordsOf(l) -> Values], dirty : BOOLEAN]

\* A line is only where its number says.
Mapped(cache, n) ==
  /\ cache = [p \in 0 .. n - 1 |-> cache[p]]
  /\ \A p \in 0 .. n - 1 :
       cache[p] = Empty \/ \E l \in Nat : l % n = p /\ HoldsLine(cache[p], l)

CacheTypes ==
  /\ mem \in [Words -> Values] /\ last \in [Words -> Values]
  /\ Mapped(dcache, DLines) /\ Mapped(icache, ILines)
  /\ use \in {"none", "remapped", "malloced", "given"} /\ pc \in {"run", "copied", "flushed"}
  /\ block \in Nat \X Nat

\* The word a in the data cache, and what it is there.
Cached(a) == dcache[Place(a, DLines)].data[a]
Dirty(a) == Held(dcache, a) /\ dcache[Place(a, DLines)].dirty

\* Whose words are used through the cache read as they were written, and a
\* line that is not dirty is as in memory.
SeenIsTrue ==
  \A a \in Words :
    /\ (use # "none" => a \notin LinesOf(block)) => Seen(a) = last[a]
    /\ Held(dcache, a) /\ ~Dirty(a) => Cached(a) = mem[a]

\* No line of a block that is used past the cache is in it.
BlockIsOut ==
  use # "none" =>
    /\ \A a \in LinesOf(block) : ~Held(dcache, a) /\ mem[a] = last[a]
    /\ Region(block) \cap Code = {} /\ pc = "run"

\* Code that is not being copied is in memory and, if anywhere else, in the
\* instruction cache.
CodeIsOut ==
  \A a \in Code :
    /\ (pc = "copied" => a \notin Region(block)) => mem[a] = last[a]
    /\ (pc # "run" => a \notin Region(block)) /\ Held(icache, a)
         => icache[Place(a, ILines)].data[a] = last[a]

CacheInv == CacheTypes /\ SeenIsTrue /\ BlockIsOut /\ CodeIsOut

-----------------------------------------------------------------------------
(* Arithmetic of lines.                                                    *)

LEMMA DivMod ==
  ASSUME NEW a \in Int, NEW d \in Nat \ {0}
  PROVE  /\ a \div d \in Int /\ a % d \in 0 .. d - 1
         /\ a = d * (a \div d) + (a % d)
  BY SMT

\* The quotient is the number of which d times is next below a.
LEMMA QuotientIs ==
  ASSUME NEW a \in Int, NEW d \in Nat \ {0}, NEW q \in Int, d * q <= a, a < d * q + d
  PROVE  a \div d = q
<1> DEFINE r == a \div d
<1>1. r \in Int /\ d * r <= a /\ a < d * r + d  BY DivMod
<1> HIDE DEF r
<1>2. d * (r + 1) = d * r + d /\ d * (q + 1) = d * q + d  BY <1>1
<1>3. ASSUME r < q PROVE FALSE
  <2>1. d * (r + 1) <= d * q  BY <1>1, <1>3
  <2> QED  BY <2>1, <1>1, <1>2
<1>4. ASSUME q < r PROVE FALSE
  <2>1. d * (q + 1) <= d * r  BY <1>1, <1>4
  <2> QED  BY <2>1, <1>1, <1>2
<1>5. r = q  BY <1>1, <1>3, <1>4
<1> QED  BY <1>5 DEF r

\* k lines further on.
LEMMA LinesOn ==
  ASSUME NEW a \in Int, NEW k \in Int
  PROVE  LineOf(a + k * LineSize) = LineOf(a) + k
<1> DEFINE q == a \div LineSize
           r == a % LineSize
<1>1. q \in Int /\ r \in 0 .. LineSize - 1 /\ a = LineSize * q + r
  BY DivMod, CacheAssumption
<1> HIDE DEF q, r
<1>2. LineSize * (q + k) = LineSize * q + k * LineSize  BY <1>1, CacheAssumption
<1>3. (a + k * LineSize) \div LineSize = q + k
  BY <1>1, <1>2, CacheAssumption, QuotientIs
<1> QED  BY <1>3 DEF LineOf, q

LEMMA LineOfType ==
  ASSUME NEW a \in Words
  PROVE  /\ LineOf(a) \in Nat /\ Place(a, DLines) \in 0 .. DLines - 1
         /\ Place(a, ILines) \in 0 .. ILines - 1
<1>1. a \in Nat  BY DEF Words
<1>2. LineOf(a) \in Nat  BY <1>1, CacheAssumption DEF LineOf
<1>3. LineOf(a) \in Int /\ DLines \in Nat \ {0} /\ ILines \in Nat \ {0}
  BY <1>2, CacheAssumption
<1>4. LineOf(a) % DLines \in 0 .. DLines - 1  BY <1>3, DivMod
<1>5. LineOf(a) % ILines \in 0 .. ILines - 1  BY <1>3, DivMod
<1> QED  BY <1>2, <1>4, <1>5 DEF Place

\* A flush of a region meets every line of it, the last one too.
LEMMA FlushMeetsAll ==
  ASSUME NEW b \in Nat \X Nat, NEW a \in Region(b)
  PROVE  LineOf(a) \in Flushed(b)
<1> DEFINE i == a - b[1]
           k == i \div LineSize
           n == (b[2] + LineSize - 1) \div LineSize
<1>1. b[1] \in Nat /\ b[2] \in Nat /\ a \in Nat /\ i \in Nat /\ i < b[2] /\ a = b[1] + i
  BY DEF Region, Words
<1>2. LineSize \in Nat \ {0}  BY CacheAssumption
<1>3. k \in Int /\ LineSize * k <= i /\ i < LineSize * k + LineSize
  <2>1. i \in Int  BY <1>1
  <2> HIDE DEF i
  <2>2. k \in Int /\ i % LineSize \in 0 .. LineSize - 1 /\ i = LineSize * k + (i % LineSize)
    BY <2>1, <1>2, DivMod
  <2> HIDE DEF k
  <2> QED  BY <2>1, <2>2, <1>2
<1>4. n \in Int /\ b[2] + LineSize - 1 < LineSize * n + LineSize
  <2> DEFINE m == b[2] + LineSize - 1
  <2>1. m \in Int  BY <1>1, <1>2
  <2> HIDE DEF m
  <2>2. m \div LineSize \in Int /\ m % LineSize \in 0 .. LineSize - 1
        /\ m = LineSize * (m \div LineSize) + (m % LineSize)
    BY <2>1, <1>2, DivMod
  <2>3. n = m \div LineSize  BY DEF m
  <2> HIDE DEF n
  <2>4. n \in Int /\ m < LineSize * n + LineSize  BY <2>1, <2>2, <2>3, <1>2
  <2> QED  BY <2>4 DEF m
<1> HIDE DEF i, k, n
<1>5. LineOf(b[1] + k * LineSize) = LineOf(b[1]) + k
  BY <1>1, <1>3, LinesOn
<1>6. k \in Nat
  <2>1. ASSUME k <= -1 PROVE FALSE
    <3>1. LineSize * (k + 1) <= 0  BY <1>2, <1>3, <2>1
    <3>2. LineSize * (k + 1) = LineSize * k + LineSize  BY <1>2, <1>3
    <3> QED  BY <3>1, <3>2, <1>1, <1>2, <1>3
  <2> QED  BY <2>1, <1>3
<1>7. k <= n - 1
  <2>1. ASSUME n <= k PROVE FALSE
    <3>1. LineSize * n <= LineSize * k  BY <1>2, <1>3, <1>4, <2>1
    <3> QED  BY <3>1, <1>1, <1>2, <1>3, <1>4
  <2> QED  BY <2>1, <1>3, <1>4
<1> DEFINE q == b[1] \div LineSize
           r == b[1] % LineSize
<1>8. q \in Int /\ r \in 0 .. LineSize - 1 /\ b[1] = LineSize * q + r
  <2>1. b[1] \in Int  BY <1>1
  <2> QED  BY <2>1, <1>2, DivMod
<1>9. LineOf(b[1]) = q  BY DEF LineOf
<1>10. Steps(b) = {b[1] + j * LineSize : j \in 0 .. IF r # 0 THEN n ELSE n - 1}
  BY DEF Steps, n
<1> HIDE DEF q, r
<1>11. LineSize * (q + k) = LineSize * q + LineSize * k
       /\ LineSize * (q + k + 1) = LineSize * q + LineSize * k + LineSize
  BY <1>2, <1>3, <1>8
<1>12. CASE r + (i - LineSize * k) < LineSize
  <2>1. a \div LineSize = q + k
    <3>1. /\ a \in Int /\ q + k \in Int
          /\ LineSize * (q + k) <= a /\ a < LineSize * (q + k) + LineSize
      BY <1>1, <1>2, <1>3, <1>8, <1>11, <1>12
    <3> QED  BY <3>1, <1>2, QuotientIs
  <2>2. b[1] + k * LineSize \in Steps(b)  BY <1>4, <1>6, <1>7, <1>10
  <2> QED  BY <2>1, <2>2, <1>5, <1>9 DEF Flushed, LineOf
<1>13. CASE r + (i - LineSize * k) >= LineSize
  <2>1. a \div LineSize = q + k + 1
    <3>1. /\ a \in Int /\ q + k + 1 \in Int
          /\ LineSize * (q + k + 1) <= a /\ a < LineSize * (q + k + 1) + LineSize
      BY <1>1, <1>2, <1>3, <1>8, <1>11, <1>13
    <3> QED  BY <3>1, <1>2, QuotientIs
  <2>2. r # 0 /\ k + 1 \in 0 .. n  BY <1>1, <1>2, <1>3, <1>4, <1>6, <1>7, <1>8, <1>13
  <2>3. b[1] + (k + 1) * LineSize \in Steps(b)  BY <2>2, <1>10
  <2>4. LineOf(b[1] + (k + 1) * LineSize) = q + (k + 1)  BY <1>1, <1>3, <1>9, LinesOn
  <2>5. LineOf(a) = q + (k + 1)  BY <2>1, <1>3, <1>8 DEF LineOf
  <2> QED  BY <2>3, <2>4, <2>5 DEF Flushed
<1> QED  BY <1>1, <1>2, <1>3, <1>8, <1>12, <1>13

\* Of numbers in a row, as many as there are places, one has each place.
LEMMA EveryPlaceMet ==
  ASSUME NEW q \in Int, NEW l \in Int, NEW n \in Nat \ {0}
  PROVE  \E k \in 0 .. n - 1 : (q + k) % n = l % n
<1> DEFINE k == (l - q) % n
           u == (l - q) \div n
           v == l \div n
<1>1. u \in Int /\ k \in 0 .. n - 1 /\ l - q = n * u + k  BY DivMod
<1>2. v \in Int /\ l % n \in 0 .. n - 1 /\ l = n * v + (l % n)  BY DivMod
<1> HIDE DEF k, u, v
<1>3. q + k = n * (v - u) + (l % n)
  <2>1. n * (v - u) = n * v - n * u  BY <1>1, <1>2
  <2> QED  BY <2>1, <1>1, <1>2
<1>4. (q + k) \div n = v - u
  <2>1. n * (v - u) <= q + k /\ q + k < n * (v - u) + n /\ v - u \in Int /\ q + k \in Int
    BY <1>1, <1>2, <1>3
  <2> QED  BY <2>1, QuotientIs
<1>5. (q + k) % n = l % n
  <2>1. q + k = n * ((q + k) \div n) + ((q + k) % n) /\ (q + k) % n \in Int  BY <1>1, DivMod
  <2> QED  BY <2>1, <1>1, <1>2, <1>3, <1>4
<1> QED  BY <1>1, <1>5

\* As many lines in a row as the instruction cache has places.
LEMMA RowMeetsAll ==
  ASSUME NEW s \in Nat, NEW a \in Words
  PROVE  \E l \in Flushed(<<s, ILines * LineSize>>) : l % ILines = Place(a, ILines)
<1> DEFINE W == ILines * LineSize
           n == (W + LineSize - 1) \div LineSize
           q == LineOf(s)
<1>1. LineSize \in Nat \ {0} /\ ILines \in Nat \ {0}  BY CacheAssumption
<1>2. W \in Nat /\ W = LineSize * ILines  BY <1>1
<1>3. n = ILines
  <2>1. /\ W + LineSize - 1 \in Int /\ LineSize * ILines <= W + LineSize - 1
        /\ W + LineSize - 1 < LineSize * ILines + LineSize
    BY <1>1, <1>2
  <2> QED  BY <2>1, <1>1, QuotientIs
<1>4. q \in Int /\ LineOf(a) \in Int
  <2>1. q \in Int  BY <1>1 DEF LineOf
  <2> QED  BY <2>1, LineOfType
<1> HIDE DEF q
<1>5. PICK k \in 0 .. ILines - 1 : (q + k) % ILines = LineOf(a) % ILines
  BY <1>1, <1>4, EveryPlaceMet
<1>6. LineOf(s + k * LineSize) = q + k
  <2>1. s \in Int /\ k \in Int  BY <1>1
  <2> QED  BY <2>1, LinesOn DEF q
<1> HIDE DEF n
<1>7. Steps(<<s, W>>) = {s + j * LineSize : j \in 0 .. IF s % LineSize # 0 THEN n ELSE n - 1}
  BY DEF Steps, n
<1>8. s + k * LineSize \in Steps(<<s, W>>)  BY <1>1, <1>3, <1>7
<1>9. q + k \in Flushed(<<s, W>>)  BY <1>6, <1>8 DEF Flushed
<1> QED  BY <1>5, <1>9 DEF Place

\* The trimmed region has a line for the place of every line of the region.
LEMMA TrimmedMeetsAll ==
  ASSUME NEW b \in Nat \X Nat, NEW a \in Region(b)
  PROVE  \E l \in Flushed(<<b[1], Trimmed(b[2])>>) : l % ILines = Place(a, ILines)
<1>1. b[1] \in Nat /\ b[2] \in Nat /\ a \in Words /\ b = <<b[1], b[2]>>  BY DEF Region
<1>2. CASE b[2] > ILines * LineSize
  BY <1>1, <1>2, RowMeetsAll DEF Trimmed
<1>3. CASE ~(b[2] > ILines * LineSize)
  <2>1. Trimmed(b[2]) = b[2]  BY <1>3 DEF Trimmed
  <2>2. LineOf(a) \in Flushed(b)  BY FlushMeetsAll
  <2> QED  BY <1>1, <2>1, <2>2 DEF Place
<1> QED  BY <1>2, <1>3
-----------------------------------------------------------------------------
(* The caches, word by word.                                               *)

LEMMA Looked ==
  ASSUME NEW n \in Nat \ {0}, NEW cache, Mapped(cache, n), NEW a \in Words
  PROVE  /\ Place(a, n) \in 0 .. n - 1 /\ DOMAIN cache = 0 .. n - 1
         /\ \A p \in 0 .. n - 1 : cache[p].line = LineOf(a) => p = Place(a, n)
         /\ Held(cache, a) <=> cache[Place(a, n)].line = LineOf(a)
         /\ Held(cache, a) => HoldsLine(cache[Place(a, n)], LineOf(a))
<1>1. LineOf(a) \in Nat  BY LineOfType
<1>2. Place(a, n) \in 0 .. n - 1
  <2>1. LineOf(a) \in Int  BY <1>1
  <2> QED  BY <2>1, DivMod DEF Place
<1>3. DOMAIN cache = 0 .. n - 1  BY DEF Mapped
<1>4. ASSUME NEW p \in 0 .. n - 1, cache[p].line = LineOf(a)
      PROVE  p = Place(a, n) /\ HoldsLine(cache[p], LineOf(a))
  <2>1. cache[p] # Empty  BY <1>1, <1>4 DEF Empty
  <2>2. PICK l \in Nat : l % n = p /\ HoldsLine(cache[p], l)  BY <2>1 DEF Mapped
  <2>3. l = LineOf(a)  BY <1>4, <2>2 DEF HoldsLine
  <2> QED  BY <2>2, <2>3 DEF Place
<1> QED  BY <1>2, <1>3, <1>4 DEF Held

\* The same of the data cache; a word that is held has a value.
LEMMA DataLooked ==
  ASSUME CacheTypes, NEW a \in Words
  PROVE  /\ Place(a, DLines) \in 0 .. DLines - 1 /\ DOMAIN dcache = 0 .. DLines - 1
         /\ \A p \in 0 .. DLines - 1 : dcache[p].line = LineOf(a) => p = Place(a, DLines)
         /\ Held(dcache, a) <=> dcache[Place(a, DLines)].line = LineOf(a)
         /\ Held(dcache, a) => /\ HoldsLine(dcache[Place(a, DLines)], LineOf(a))
                               /\ Cached(a) \in Values
         /\ Seen(a) = IF Held(dcache, a) THEN Cached(a) ELSE mem[a]
<1>1. Mapped(dcache, DLines) /\ DLines \in Nat \ {0}  BY CacheAssumption DEF CacheTypes
<1>2. a \in WordsOf(LineOf(a))  BY DEF WordsOf
<1>3. Held(dcache, a) => HoldsLine(dcache[Place(a, DLines)], LineOf(a))  BY <1>1, Looked
<1>4. Held(dcache, a) => Cached(a) \in Values  BY <1>2, <1>3 DEF Cached, HoldsLine
<1>5. Seen(a) = IF Held(dcache, a) THEN Cached(a) ELSE mem[a]  BY DEF Seen, Cached, Place
<1>6. /\ Place(a, DLines) \in 0 .. DLines - 1 /\ DOMAIN dcache = 0 .. DLines - 1
      /\ \A p \in 0 .. DLines - 1 : dcache[p].line = LineOf(a) => p = Place(a, DLines)
      /\ Held(dcache, a) <=> dcache[Place(a, DLines)].line = LineOf(a)
  BY <1>1, Looked
<1> QED  BY <1>3, <1>4, <1>5, <1>6

\* What memory becomes when places are written back.
LEMMA WrittenBackIs ==
  ASSUME CacheTypes, NEW P \in SUBSET (0 .. DLines - 1)
  PROVE  /\ WrittenBack(P) \in [Words -> Values]
         /\ \A a \in Words :
              WrittenBack(P)[a] = IF Place(a, DLines) \in P /\ Dirty(a) THEN Cached(a) ELSE mem[a]
<1>1. ASSUME NEW a \in Words
      PROVE  WrittenBack(P)[a] = IF Place(a, DLines) \in P /\ Dirty(a) THEN Cached(a) ELSE mem[a]
  <2>1. (\E p \in P : dcache[p].line = LineOf(a) /\ dcache[p].dirty)
          <=> (Place(a, DLines) \in P /\ Dirty(a))
    BY DataLooked DEF Dirty
  <2>2. WrittenBack(P)[a] = IF \E p \in P : dcache[p].line = LineOf(a) /\ dcache[p].dirty
                            THEN dcache[LineOf(a) % DLines].data[a] ELSE mem[a]
    BY DEF WrittenBack
  <2> QED  BY <2>1, <2>2 DEF Cached, Place
<1>2. ASSUME NEW a \in Words PROVE WrittenBack(P)[a] \in Values
  BY <1>1, DataLooked DEF CacheTypes, Dirty
<1>3. WrittenBack(P) = [a \in Words |-> WrittenBack(P)[a]]  BY DEF WrittenBack
<1> QED  BY <1>1, <1>2, <1>3

\* A line written back brings memory up to date and never back.
LEMMA WrittenBackIsTrue ==
  ASSUME CacheInv, NEW P \in SUBSET (0 .. DLines - 1), NEW a \in Words
  PROVE  /\ mem[a] = last[a] => WrittenBack(P)[a] = last[a]
         /\ Held(dcache, a) /\ Place(a, DLines) \in P => WrittenBack(P)[a] = last[a]
         /\ ~(Held(dcache, a) /\ Place(a, DLines) \in P) => WrittenBack(P)[a] = mem[a]
<1>1. CacheTypes  BY DEF CacheInv
<1>2. WrittenBack(P)[a] = IF Place(a, DLines) \in P /\ Dirty(a) THEN Cached(a) ELSE mem[a]
  BY <1>1, WrittenBackIs
<1>3. ASSUME Held(dcache, a) PROVE Cached(a) = last[a] /\ (~Dirty(a) => Cached(a) = mem[a])
  <2>1. use # "none" => a \notin LinesOf(block)  BY <1>3 DEF CacheInv, BlockIsOut
  <2>2. Seen(a) = last[a] /\ (~Dirty(a) => Cached(a) = mem[a])
    BY <1>3, <2>1 DEF CacheInv, SeenIsTrue
  <2> QED  BY <1>1, <1>3, <2>2, DataLooked
<1> QED  BY <1>2, <1>3 DEF Dirty

\* A cache whose places P are emptied.
LEMMA Emptied ==
  ASSUME NEW n \in Nat \ {0}, NEW cache, Mapped(cache, n), NEW P, NEW after,
         after = [p \in DOMAIN cache |-> IF p \in P THEN Empty ELSE cache[p]]
  PROVE  /\ Mapped(after, n)
         /\ \A a \in Words :
              /\ Held(after, a) <=> Held(cache, a) /\ Place(a, n) \notin P
              /\ Held(after, a) => after[Place(a, n)] = cache[Place(a, n)]
<1>1. DOMAIN cache = 0 .. n - 1  BY DEF Mapped
<1>2. ASSUME NEW p \in 0 .. n - 1
      PROVE  after[p] = IF p \in P THEN Empty ELSE cache[p]
  BY <1>1
<1>3. Mapped(after, n)
  <2>1. after = [p \in 0 .. n - 1 |-> after[p]]  BY <1>1
  <2>2. ASSUME NEW p \in 0 .. n - 1
        PROVE  after[p] = Empty \/ \E l \in Nat : l % n = p /\ HoldsLine(after[p], l)
    BY <1>2 DEF Mapped
  <2> QED  BY <2>1, <2>2 DEF Mapped
<1>4. ASSUME NEW a \in Words
      PROVE  /\ Held(after, a) <=> Held(cache, a) /\ Place(a, n) \notin P
             /\ Held(after, a) => after[Place(a, n)] = cache[Place(a, n)]
  <2>1. Empty.line # LineOf(a)  BY LineOfType DEF Empty
  <2>2. /\ Place(a, n) \in 0 .. n - 1
        /\ Held(cache, a) <=> cache[Place(a, n)].line = LineOf(a)
    BY Looked
  <2>3. Held(after, a) <=> after[Place(a, n)].line = LineOf(a)
    BY <1>3, Looked
  <2> QED  BY <1>2, <2>1, <2>2, <2>3
<1> QED  BY <1>3, <1>4
-----------------------------------------------------------------------------
(* An access.                                                              *)

LEMMA FetchedIs ==
  ASSUME CacheTypes, NEW a \in Words
  PROVE  /\ HoldsLine(Fetched(a), LineOf(a))
         /\ Fetched(a).dirty <=> Dirty(a)
         /\ \A w \in Words : LineOf(w) = LineOf(a) => Fetched(a).data[w] = Seen(w)
<1>1. CASE Held(dcache, a)
  <2>1. Fetched(a) = dcache[Place(a, DLines)]  BY <1>1 DEF Fetched, Place
  <2>2. \A w \in Words : LineOf(w) = LineOf(a) =>
          Place(w, DLines) = Place(a, DLines) /\ Held(dcache, w) /\ Seen(w) = Cached(w)
    <3> SUFFICES ASSUME NEW w \in Words, LineOf(w) = LineOf(a)
                 PROVE  Place(w, DLines) = Place(a, DLines) /\ Held(dcache, w) /\ Seen(w) = Cached(w)
      OBVIOUS
    <3>1. Place(w, DLines) = Place(a, DLines)  BY DEF Place
    <3>2. Held(dcache, w)  BY <1>1, <3>1, DataLooked
    <3> QED  BY <3>1, <3>2, DataLooked
  <2> QED  BY <1>1, <2>1, <2>2, DataLooked DEF Cached, Dirty
<1>2. CASE ~Held(dcache, a)
  <2>1. Fetched(a) = [line |-> LineOf(a), data |-> [w \in WordsOf(LineOf(a)) |-> mem[w]],
                      dirty |-> FALSE]
    BY <1>2 DEF Fetched
  <2>2. \A w \in Words : LineOf(w) = LineOf(a) => w \in WordsOf(LineOf(a)) /\ Seen(w) = mem[w]
    <3> SUFFICES ASSUME NEW w \in Words, LineOf(w) = LineOf(a)
                 PROVE  w \in WordsOf(LineOf(a)) /\ Seen(w) = mem[w]
      OBVIOUS
    <3>1. ~Held(dcache, w)  BY <1>2, DataLooked DEF Place
    <3> QED  BY <3>1, DataLooked DEF WordsOf
  <2>3. [w \in WordsOf(LineOf(a)) |-> mem[w]] \in [WordsOf(LineOf(a)) -> Values]
    BY DEF CacheTypes, WordsOf
  <2> QED  BY <1>2, <2>1, <2>2, <2>3 DEF HoldsLine, Dirty
<1> QED  BY <1>1, <1>2

\* What an access that leaves e in the cache changes.
LEMMA Accessed ==
  ASSUME CacheInv, NEW a \in Words, NEW e, HoldsLine(e, LineOf(a)), Access(a, e)
  PROVE  /\ Mapped(dcache', DLines) /\ mem' \in [Words -> Values]
         /\ \A w \in Words :
              /\ mem[w] = last[w] => mem'[w] = last[w]
              /\ LineOf(w) = LineOf(a) =>
                   Held(dcache', w) /\ dcache'[Place(w, DLines)] = e /\ mem'[w] = mem[w]
              /\ LineOf(w) # LineOf(a) /\ Place(w, DLines) = Place(a, DLines) =>
                   /\ ~Held(dcache', w)
                   /\ (use # "none" => w \notin LinesOf(block)) => mem'[w] = last[w]
              /\ Place(w, DLines) # Place(a, DLines) =>
                   /\ Held(dcache', w) <=> Held(dcache, w)
                   /\ dcache'[Place(w, DLines)] = dcache[Place(w, DLines)]
                   /\ mem'[w] = mem[w]
<1> DEFINE p == Place(a, DLines)
<1>1. CacheTypes /\ Mapped(dcache, DLines) /\ DLines \in Nat \ {0}
  BY CacheAssumption DEF CacheInv, CacheTypes
<1>2. p \in 0 .. DLines - 1 /\ p = LineOf(a) % DLines /\ DOMAIN dcache = 0 .. DLines - 1
  BY <1>1, DataLooked DEF Place
<1>3. dcache' = [dcache EXCEPT ![p] = e]  BY <1>2 DEF Access
<1>4. mem' = IF Held(dcache, a) THEN mem ELSE WrittenBack({p})  BY <1>2 DEF Access
<1> HIDE DEF p
<1>5. e.line = LineOf(a) /\ LineOf(a) \in Nat  BY LineOfType DEF HoldsLine
<1>6. \A i \in 0 .. DLines - 1 : dcache'[i] = IF i = p THEN e ELSE dcache[i]  BY <1>2, <1>3
<1>7. Mapped(dcache', DLines)
  <2>1. dcache' = [i \in 0 .. DLines - 1 |-> dcache'[i]]  BY <1>2, <1>3
  <2>2. ASSUME NEW i \in 0 .. DLines - 1
        PROVE  dcache'[i] = Empty \/ \E l \in Nat : l % DLines = i /\ HoldsLine(dcache'[i], l)
    <3>1. CASE i = p  BY <1>2, <1>5, <1>6, <3>1
    <3>2. CASE i # p  BY <1>1, <1>6, <3>2 DEF Mapped
    <3> QED  BY <3>1, <3>2
  <2> QED  BY <2>1, <2>2 DEF Mapped
<1>8. mem' \in [Words -> Values]
  <2>1. {p} \in SUBSET (0 .. DLines - 1)  BY <1>2
  <2> QED  BY <1>1, <1>4, <2>1, WrittenBackIs DEF CacheTypes
<1>9. ASSUME NEW w \in Words
      PROVE  /\ mem[w] = last[w] => mem'[w] = last[w]
             /\ LineOf(w) = LineOf(a) =>
                  Held(dcache', w) /\ dcache'[Place(w, DLines)] = e /\ mem'[w] = mem[w]
             /\ LineOf(w) # LineOf(a) /\ Place(w, DLines) = p =>
                  /\ ~Held(dcache', w)
                  /\ (use # "none" => w \notin LinesOf(block)) => mem'[w] = last[w]
             /\ Place(w, DLines) # p =>
                  /\ Held(dcache', w) <=> Held(dcache, w)
                  /\ dcache'[Place(w, DLines)] = dcache[Place(w, DLines)]
                  /\ mem'[w] = mem[w]
  <2> DEFINE q == Place(w, DLines)
  <2>1. /\ q \in 0 .. DLines - 1
        /\ Held(dcache, w) <=> dcache[q].line = LineOf(w)
        /\ Seen(w) = IF Held(dcache, w) THEN Cached(w) ELSE mem[w]
    BY <1>1, DataLooked
  <2>2. Held(dcache', w) <=> dcache'[q].line = LineOf(w)  BY <1>1, <1>7, Looked
  <2>3. Held(dcache, a) <=> dcache[p].line = LineOf(a)  BY <1>1, DataLooked DEF p
  <2>4. LineOf(w) = LineOf(a) => q = p  BY DEF Place, p
  <2>5. {p} \in SUBSET (0 .. DLines - 1)  BY <1>2
  <2>6. /\ mem[w] = last[w] => WrittenBack({p})[w] = last[w]
        /\ Held(dcache, w) /\ q = p => WrittenBack({p})[w] = last[w]
        /\ ~(Held(dcache, w) /\ q = p) => WrittenBack({p})[w] = mem[w]
    BY <2>5, WrittenBackIsTrue
  <2>7. ~Held(dcache, w) /\ (use # "none" => w \notin LinesOf(block)) => mem[w] = last[w]
    BY <2>1 DEF CacheInv, SeenIsTrue
  <2> HIDE DEF q
  <2>8. CASE LineOf(w) = LineOf(a)
    BY <1>4, <1>5, <1>6, <2>1, <2>2, <2>3, <2>4, <2>6, <2>8 DEF q
  <2>9. CASE LineOf(w) # LineOf(a) /\ q = p
    BY <1>4, <1>5, <1>6, <2>1, <2>2, <2>3, <2>6, <2>7, <2>9 DEF q
  <2>10. CASE q # p
    BY <1>4, <1>6, <2>1, <2>2, <2>4, <2>6, <2>10 DEF q
  <2> QED  BY <2>8, <2>9, <2>10 DEF q
<1> QED  BY <1>7, <1>8, <1>9 DEF p

\* What the invariant keeps in an access by whoever may use the word.
LEMMA AccessKeeps ==
  ASSUME CacheInv, NEW a \in Words, use # "none" => a \notin LinesOf(block),
         NEW e, HoldsLine(e, LineOf(a)), Access(a, e),
         \A w \in Words : LineOf(w) = LineOf(a) =>
           /\ e.data[w] = IF w = a THEN last'[a] ELSE Seen(w)
           /\ ~e.dirty => e.data[w] = mem[w],
         \A w \in Words \ {a} : last'[w] = last[w],
         use' = use, use # "none" => block' = block /\ pc' = pc
  PROVE  /\ Mapped(dcache, DLines)' /\ (mem \in [Words -> Values])'
         /\ SeenIsTrue' /\ BlockIsOut'
         /\ \A w \in Words \ {a} : mem[w] = last[w] => mem'[w] = last'[w]
<1>1. CacheTypes  BY DEF CacheInv
<1>2. SeenIsTrue'
  <2> SUFFICES ASSUME NEW w \in Words
               PROVE  /\ (use' # "none" => w \notin LinesOf(block')) => Seen(w)' = last'[w]
                      /\ Held(dcache', w) /\ ~Dirty(w)' => Cached(w)' = mem'[w]
    BY DEF SeenIsTrue
  <2>1. (use' # "none" => w \notin LinesOf(block')) <=> (use # "none" => w \notin LinesOf(block))
    OBVIOUS
  <2>2. /\ Seen(w)' = IF Held(dcache', w) THEN dcache'[Place(w, DLines)].data[w] ELSE mem'[w]
        /\ Dirty(w)' <=> Held(dcache', w) /\ dcache'[Place(w, DLines)].dirty
        /\ Cached(w)' = dcache'[Place(w, DLines)].data[w]
    BY DEF Seen, Dirty, Cached, Place
  <2>3. /\ (use # "none" => w \notin LinesOf(block)) => Seen(w) = last[w]
        /\ Held(dcache, w) /\ ~Dirty(w) => Cached(w) = mem[w]
    BY DEF CacheInv, SeenIsTrue
  <2>4. Seen(w) = IF Held(dcache, w) THEN Cached(w) ELSE mem[w]  BY <1>1, DataLooked
  <2>5. CASE LineOf(w) = LineOf(a)
    <3>1. use # "none" => w \notin LinesOf(block)  BY <2>5 DEF LinesOf
    <3>2. Held(dcache', w) /\ dcache'[Place(w, DLines)] = e /\ mem'[w] = mem[w]
      BY <2>5, Accessed
    <3>3. e.data[w] = IF w = a THEN last'[a] ELSE Seen(w)  BY <2>5
    <3>4. ~e.dirty => e.data[w] = mem[w]  BY <2>5
    <3> QED  BY <2>2, <2>3, <3>1, <3>2, <3>3, <3>4
  <2>6. CASE LineOf(w) # LineOf(a) /\ Place(w, DLines) = Place(a, DLines)
    <3>1. /\ ~Held(dcache', w) /\ w # a
          /\ (use # "none" => w \notin LinesOf(block)) => mem'[w] = last[w]
      BY <2>6, Accessed
    <3> QED  BY <2>1, <2>2, <3>1
  <2>7. CASE Place(w, DLines) # Place(a, DLines)
    <3>1. /\ Held(dcache', w) <=> Held(dcache, w)
          /\ dcache'[Place(w, DLines)] = dcache[Place(w, DLines)] /\ mem'[w] = mem[w] /\ w # a
      BY <2>7, Accessed
    <3> QED  BY <2>1, <2>2, <2>3, <2>4, <3>1 DEF Cached, Dirty
  <2> QED  BY <2>5, <2>6, <2>7
<1>3. BlockIsOut'
  <2> SUFFICES ASSUME use # "none"
               PROVE  /\ \A w \in LinesOf(block) : ~Held(dcache', w) /\ mem'[w] = last'[w]
                      /\ Region(block) \cap Code = {} /\ pc' = "run"
    BY DEF BlockIsOut
  <2>1. ASSUME NEW w \in LinesOf(block) PROVE ~Held(dcache', w) /\ mem'[w] = last'[w]
    <3>1. w \in Words /\ LineOf(w) # LineOf(a) /\ w # a  BY DEF LinesOf
    <3>2. ~Held(dcache, w) /\ mem[w] = last[w]  BY DEF CacheInv, BlockIsOut
    <3>3. mem'[w] = last[w]  BY <3>1, <3>2, Accessed
    <3>4. ~Held(dcache', w)  BY <3>1, <3>2, Accessed
    <3> QED  BY <3>1, <3>3, <3>4
  <2> QED  BY <2>1 DEF CacheInv, BlockIsOut
<1>4. Mapped(dcache', DLines) /\ mem' \in [Words -> Values]  BY Accessed
<1>5. ASSUME NEW w \in Words \ {a}, mem[w] = last[w] PROVE mem'[w] = last'[w]
  BY <1>5, Accessed
<1> QED  BY <1>2, <1>3, <1>4, <1>5 DEF Mapped
-----------------------------------------------------------------------------
(* The calls.                                                              *)

LEMMA CacheStarts == CacheInit => CacheInv
<1> SUFFICES ASSUME CacheInit PROVE CacheInv  OBVIOUS
<1>1. PICK v \in Values : mem = [a \in Words |-> v]  BY DEF CacheInit
<1>2. mem \in [Words -> Values] /\ last = mem  BY <1>1 DEF CacheInit
<1>3. \A a \in Words : Empty.line # LineOf(a)  BY LineOfType DEF Empty
<1>4. /\ \A a \in Words : ~Held(dcache, a) /\ ~Held(icache, a)
      /\ Mapped(dcache, DLines) /\ Mapped(icache, ILines)
  BY <1>3 DEF CacheInit, Held, Mapped
<1>5. CacheTypes  BY <1>2, <1>4 DEF CacheTypes, CacheInit
<1>6. SeenIsTrue  BY <1>2, <1>4 DEF SeenIsTrue, Seen
<1>7. CodeIsOut  BY <1>2, <1>4, CacheAssumption DEF CodeIsOut, CacheInit
<1>8. BlockIsOut  BY DEF BlockIsOut, CacheInit
<1> QED  BY <1>5, <1>6, <1>7, <1>8 DEF CacheInv

LEMMA ReadKeeps ==
  ASSUME ~Sharing, CacheInv, NEW a \in Words, Read(a)
  PROVE  CacheInv'
<1> DEFINE e == Fetched(a)
<1>1. CacheTypes /\ (use # "none" => a \notin LinesOf(block))  BY DEF CacheInv, Read, Unshared
<1>2. Access(a, e) /\ UNCHANGED <<icache, last, use, block, pc>>  BY DEF Read
<1>3. HoldsLine(e, LineOf(a))  BY <1>1, FetchedIs
<1>4. ASSUME NEW w \in Words, LineOf(w) = LineOf(a)
      PROVE  /\ e.data[w] = IF w = a THEN last'[a] ELSE Seen(w)
             /\ ~e.dirty => e.data[w] = mem[w]
  <2>1. e.data[w] = Seen(w) /\ (e.dirty <=> Dirty(a))  BY <1>1, <1>4, FetchedIs
  <2>2. w \notin LinesOf(block) \/ use = "none"  BY <1>1, <1>4 DEF LinesOf
  <2>3. Seen(w) = last[w] /\ (Held(dcache, w) /\ ~Dirty(w) => Cached(w) = mem[w])
    BY <2>2 DEF CacheInv, SeenIsTrue
  <2>4. /\ Seen(w) = IF Held(dcache, w) THEN Cached(w) ELSE mem[w]
        /\ Dirty(a) <=> Dirty(w)
    BY <1>1, <1>4, DataLooked DEF Dirty, Place
  <2> QED  BY <1>2, <2>1, <2>3, <2>4
<1> HIDE DEF e
<1>5. /\ Mapped(dcache, DLines)' /\ (mem \in [Words -> Values])' /\ SeenIsTrue' /\ BlockIsOut'
  BY <1>1, <1>2, <1>3, <1>4, AccessKeeps
<1>6. \A w \in Words : mem[w] = last[w] => mem'[w] = last[w]  BY <1>2, <1>3, Accessed
<1>7. CacheTypes'  BY <1>1, <1>2, <1>5 DEF CacheTypes, Mapped
<1>8. CodeIsOut'
  BY <1>2, <1>6, CacheAssumption DEF CacheInv, CodeIsOut
<1> QED  BY <1>5, <1>7, <1>8 DEF CacheInv

\* What a cached write leaves in the cache.
LEMMA WrittenLine ==
  ASSUME ~Sharing, CacheInv, NEW a \in Words, NEW v \in Values, use # "none" => a \notin LinesOf(block),
         Access(a, [Fetched(a) EXCEPT !.data[a] = v, !.dirty = TRUE]),
         last' = [last EXCEPT ![a] = v],
         use' = use, use # "none" => block' = block /\ pc' = pc
  PROVE  /\ Mapped(dcache, DLines)' /\ (mem \in [Words -> Values])' /\ (last \in [Words -> Values])'
         /\ SeenIsTrue' /\ BlockIsOut'
         /\ \A w \in Words \ {a} : mem[w] = last[w] => mem'[w] = last'[w]
         /\ \A w \in Words \ {a} : last'[w] = last[w]
<1> DEFINE e == [Fetched(a) EXCEPT !.data[a] = v, !.dirty = TRUE]
<1>1. CacheTypes /\ last \in [Words -> Values]  BY DEF CacheInv, CacheTypes
<1>2. Fetched(a) \in [line : {LineOf(a)}, data : [WordsOf(LineOf(a)) -> Values], dirty : BOOLEAN]
  BY <1>1, FetchedIs DEF HoldsLine
<1>3. a \in WordsOf(LineOf(a))  BY DEF WordsOf
<1>4. HoldsLine(e, LineOf(a)) /\ e.dirty
      /\ \A w \in WordsOf(LineOf(a)) : e.data[w] = IF w = a THEN v ELSE Fetched(a).data[w]
  BY <1>2, <1>3 DEF HoldsLine
<1>5. last' \in [Words -> Values] /\ last'[a] = v /\ \A w \in Words \ {a} : last'[w] = last[w]
  BY <1>1
<1>6. Access(a, e)  OBVIOUS
<1> HIDE DEF e
<1>7. ASSUME NEW w \in Words, LineOf(w) = LineOf(a)
      PROVE  /\ e.data[w] = IF w = a THEN last'[a] ELSE Seen(w)
             /\ ~e.dirty => e.data[w] = mem[w]
  <2>1. w \in WordsOf(LineOf(a)) /\ Fetched(a).data[w] = Seen(w)
    BY <1>1, <1>7, FetchedIs DEF WordsOf
  <2> QED  BY <1>4, <1>5, <2>1
<1>8. /\ Mapped(dcache, DLines)' /\ (mem \in [Words -> Values])' /\ SeenIsTrue' /\ BlockIsOut'
      /\ \A w \in Words \ {a} : mem[w] = last[w] => mem'[w] = last'[w]
  BY <1>4, <1>5, <1>6, <1>7, AccessKeeps
<1> QED  BY <1>5, <1>8

LEMMA WriteKeeps ==
  ASSUME ~Sharing, CacheInv, NEW a \in Words, NEW v \in Values, Write(a, v)
  PROVE  CacheInv'
<1>1. /\ Mapped(dcache, DLines)' /\ (mem \in [Words -> Values])' /\ (last \in [Words -> Values])'
      /\ SeenIsTrue' /\ BlockIsOut'
      /\ \A w \in Words \ {a} : mem[w] = last[w] => mem'[w] = last'[w]
      /\ \A w \in Words \ {a} : last'[w] = last[w]
  BY WrittenLine DEF Write, Unshared
<1>2. UNCHANGED <<icache, use, block, pc>> /\ a \notin Code  BY DEF Write
<1>3. CacheTypes'  BY <1>1, <1>2 DEF CacheInv, CacheTypes, Mapped
<1>4. CodeIsOut'  BY <1>1, <1>2, CacheAssumption DEF CacheInv, CodeIsOut
<1> QED  BY <1>1, <1>3, <1>4 DEF CacheInv

LEMMA CopyKeeps ==
  ASSUME ~Sharing, CacheInv, NEW a \in Words, NEW v \in Values, Copy(a, v)
  PROVE  CacheInv'
<1>1. /\ Mapped(dcache, DLines)' /\ (mem \in [Words -> Values])' /\ (last \in [Words -> Values])'
      /\ SeenIsTrue' /\ BlockIsOut'
      /\ \A w \in Words \ {a} : mem[w] = last[w] => mem'[w] = last'[w]
      /\ \A w \in Words \ {a} : last'[w] = last[w]
  BY WrittenLine DEF Copy
<1>2. /\ UNCHANGED <<icache, use>> /\ a \in Code /\ pc' = "copied" /\ use = "none"
      /\ pc \in {"run", "copied"}
  BY DEF Copy
<1>3. /\ a \in Region(block') /\ (pc = "copied" => block' = block)
      /\ block' = block \/ block' \in Blocks
  BY DEF Copy
<1>4. block' \in Nat \X Nat
  BY <1>3, CacheAssumption DEF CacheInv, CacheTypes, Words
<1>5. CacheTypes'  BY <1>1, <1>2, <1>4 DEF CacheInv, CacheTypes, Mapped
<1>6. CodeIsOut'
  <2> SUFFICES ASSUME NEW w \in Code, w \notin Region(block')
               PROVE  mem'[w] = last'[w] /\ (Held(icache, w) => icache[Place(w, ILines)].data[w] = last'[w])
    BY <1>2 DEF CodeIsOut
  <2>1. w \in Words \ {a}  BY <1>3, CacheAssumption
  <2>2. mem[w] = last[w] /\ (Held(icache, w) => icache[Place(w, ILines)].data[w] = last[w])
    BY <1>2, <1>3 DEF CacheInv, CodeIsOut
  <2> QED  BY <1>1, <2>1, <2>2
<1> QED  BY <1>1, <1>5, <1>6 DEF CacheInv

LEMMA ExecuteKeeps ==
  ASSUME CacheInv, NEW a \in Words, Execute(a)
  PROVE  CacheInv'
<1> DEFINE p == Place(a, ILines)
           e == [line |-> LineOf(a), data |-> [w \in WordsOf(LineOf(a)) |-> mem[w]], dirty |-> FALSE]
<1>1. UNCHANGED <<mem, dcache, last, use, block, pc>> /\ a \in Code /\ pc = "run"
  BY DEF Execute
<1>2. CacheTypes /\ Mapped(icache, ILines) /\ ILines \in Nat \ {0}
  BY CacheAssumption DEF CacheInv, CacheTypes
<1>3. icache' = [icache EXCEPT ![p] = e]  BY DEF Execute, Place
<1>4. HoldsLine(e, LineOf(a)) /\ LineOf(a) \in Nat /\ LineOf(a) % ILines = p
  BY <1>2, LineOfType DEF CacheTypes, HoldsLine, WordsOf, Place
<1>5. p \in 0 .. ILines - 1 /\ DOMAIN icache = 0 .. ILines - 1  BY <1>2, Looked
<1>6. \A w \in WordsOf(LineOf(a)) : e.data[w] = mem[w]  OBVIOUS
<1>7. e.line = LineOf(a)  OBVIOUS
<1> HIDE DEF e, p
<1>8. \A i \in 0 .. ILines - 1 : icache'[i] = IF i = p THEN e ELSE icache[i]  BY <1>3, <1>5
<1>9. Mapped(icache', ILines)
  <2>1. icache' = [i \in 0 .. ILines - 1 |-> icache'[i]]  BY <1>3, <1>5
  <2>2. ASSUME NEW i \in 0 .. ILines - 1
        PROVE  icache'[i] = Empty \/ \E l \in Nat : l % ILines = i /\ HoldsLine(icache'[i], l)
    BY <1>2, <1>4, <1>8 DEF Mapped
  <2> QED  BY <2>1, <2>2 DEF Mapped
<1>10. CacheTypes'  BY <1>1, <1>2, <1>9 DEF CacheTypes, Mapped
<1>11. SeenIsTrue' /\ BlockIsOut'
  BY <1>1 DEF CacheInv, SeenIsTrue, BlockIsOut, Seen, Cached, Dirty
<1>12. CodeIsOut'
  <2> SUFFICES ASSUME NEW w \in Code
               PROVE  /\ mem[w] = last[w]
                      /\ Held(icache', w) => icache'[Place(w, ILines)].data[w] = last[w]
    BY <1>1 DEF CodeIsOut
  <2>1. w \in Words  BY CacheAssumption
  <2>2. mem[w] = last[w] /\ (Held(icache, w) => icache[Place(w, ILines)].data[w] = last[w])
    BY <1>1 DEF CacheInv, CodeIsOut
  <2>3. /\ Place(w, ILines) \in 0 .. ILines - 1
        /\ Held(icache, w) <=> icache[Place(w, ILines)].line = LineOf(w)
    BY <1>2, <2>1, Looked
  <2>4. Held(icache', w) <=> icache'[Place(w, ILines)].line = LineOf(w)
    BY <1>2, <1>9, <2>1, Looked
  <2>5. CASE LineOf(w) = LineOf(a)
    <3>1. w \in WordsOf(LineOf(a)) /\ Place(w, ILines) = p  BY <2>1, <2>5 DEF WordsOf, Place, p
    <3> QED  BY <1>6, <1>8, <2>2, <2>3, <3>1
  <2>6. CASE LineOf(w) # LineOf(a)
    BY <1>7, <1>8, <2>2, <2>3, <2>4, <2>6
  <2> QED  BY <2>5, <2>6
<1> QED  BY <1>10, <1>11, <1>12 DEF CacheInv

\* What is written past the cache is written in a block that is out of it.
LEMMA PastCacheKeeps ==
  ASSUME CacheInv, use # "none", NEW a \in Region(block), NEW v \in Values,
         mem' = [mem EXCEPT ![a] = v], last' = [last EXCEPT ![a] = v],
         UNCHANGED <<dcache, icache, use, block, pc>>
  PROVE  CacheInv'
<1>1. CacheTypes  BY DEF CacheInv
<1>2. a \in Words /\ a \in LinesOf(block) /\ a \notin Code
  BY DEF CacheInv, BlockIsOut, Region, LinesOf
<1>3. \A w \in Words : w # a => mem'[w] = mem[w] /\ last'[w] = last[w]
  BY <1>1 DEF CacheTypes
<1>4. mem'[a] = v /\ last'[a] = v  BY <1>1, <1>2 DEF CacheTypes
<1>5. CacheTypes'  BY <1>1, <1>2 DEF CacheTypes, Mapped
<1>6. SeenIsTrue'
  <2> SUFFICES ASSUME NEW w \in Words
               PROVE  /\ (use # "none" => w \notin LinesOf(block)) => Seen(w)' = last'[w]
                      /\ Held(dcache, w) /\ ~Dirty(w) => Cached(w) = mem'[w]
    BY DEF SeenIsTrue, Cached, Dirty
  <2>1. Seen(w)' = IF Held(dcache, w) THEN Cached(w) ELSE mem'[w]  BY DEF Seen, Cached, Place
  <2>2. Seen(w) = IF Held(dcache, w) THEN Cached(w) ELSE mem[w]  BY <1>1, DataLooked
  <2>3. CASE w = a  BY <1>2, <2>3 DEF CacheInv, BlockIsOut
  <2>4. CASE w # a  BY <1>3, <2>1, <2>2, <2>4 DEF CacheInv, SeenIsTrue
  <2> QED  BY <2>3, <2>4
<1>7. BlockIsOut'
  <2>1. ASSUME NEW w \in LinesOf(block) PROVE ~Held(dcache, w) /\ mem'[w] = last'[w]
    BY <1>3, <1>4 DEF CacheInv, BlockIsOut, LinesOf
  <2> QED  BY <2>1 DEF CacheInv, BlockIsOut
<1>8. CodeIsOut'
  <2>1. \A w \in Code : mem'[w] = mem[w] /\ last'[w] = last[w]
    BY <1>2, <1>3, CacheAssumption
  <2> QED  BY <2>1 DEF CacheInv, CodeIsOut
<1> QED  BY <1>5, <1>6, <1>7, <1>8 DEF CacheInv

\* Lines written back and dropped from places P, while no block is used.
LEMMA FlushKeeps ==
  ASSUME CacheInv, use = "none", NEW P \in SUBSET (0 .. DLines - 1), mem' = WrittenBack(P),
         dcache' = [p \in DOMAIN dcache |-> IF p \in P THEN Empty ELSE dcache[p]], last' = last
  PROVE  /\ Mapped(dcache, DLines)' /\ (mem \in [Words -> Values])' /\ SeenIsTrue'
         /\ \A w \in Words :
              /\ mem[w] = last[w] => mem'[w] = last[w]
              /\ (Held(dcache, w) => Place(w, DLines) \in P) => ~Held(dcache', w) /\ mem'[w] = last[w]
<1>1. CacheTypes /\ Mapped(dcache, DLines) /\ DLines \in Nat \ {0}
  BY CacheAssumption DEF CacheInv, CacheTypes
<1>2. mem' \in [Words -> Values]  BY <1>1, WrittenBackIs
<1>3. /\ Mapped(dcache', DLines)
      /\ \A w \in Words :
           /\ Held(dcache', w) <=> Held(dcache, w) /\ Place(w, DLines) \notin P
           /\ Held(dcache', w) => dcache'[Place(w, DLines)] = dcache[Place(w, DLines)]
  BY <1>1, Emptied
<1>4. ASSUME NEW w \in Words
      PROVE  /\ mem[w] = last[w] => mem'[w] = last[w]
             /\ (Held(dcache, w) => Place(w, DLines) \in P) => ~Held(dcache', w) /\ mem'[w] = last[w]
             /\ Seen(w)' = last[w]
             /\ Held(dcache', w) /\ ~Dirty(w)' => Cached(w)' = mem'[w]
  <2>1. Seen(w) = last[w] /\ (Held(dcache, w) /\ ~Dirty(w) => Cached(w) = mem[w])
    BY DEF CacheInv, SeenIsTrue
  <2>2. Seen(w) = IF Held(dcache, w) THEN Cached(w) ELSE mem[w]  BY <1>1, DataLooked
  <2>3. /\ mem[w] = last[w] => mem'[w] = last[w]
        /\ Held(dcache, w) /\ Place(w, DLines) \in P => mem'[w] = last[w]
        /\ ~(Held(dcache, w) /\ Place(w, DLines) \in P) => mem'[w] = mem[w]
    BY WrittenBackIsTrue
  <2>4. /\ Seen(w)' = IF Held(dcache', w) THEN dcache'[Place(w, DLines)].data[w] ELSE mem'[w]
        /\ Dirty(w)' <=> Held(dcache', w) /\ dcache'[Place(w, DLines)].dirty
        /\ Cached(w)' = dcache'[Place(w, DLines)].data[w]
    BY DEF Seen, Dirty, Cached, Place
  <2> QED  BY <1>3, <2>1, <2>2, <2>3, <2>4 DEF Cached, Dirty
<1>5. SeenIsTrue'  BY <1>4 DEF SeenIsTrue
<1> QED  BY <1>2, <1>3, <1>4, <1>5 DEF Mapped

\* A flush by address meets every line of the region.
LEMMA FlushedPlaces ==
  ASSUME CacheTypes, NEW b \in Nat \X Nat, NEW w \in LinesOf(b), Held(dcache, w)
  PROVE  Place(w, DLines) \in {p \in DOMAIN dcache : dcache[p].line \in Flushed(b)}
<1>1. PICK r \in Region(b) : LineOf(w) = LineOf(r)  BY DEF LinesOf
<1>2. LineOf(w) \in Flushed(b) /\ w \in Words  BY <1>1, FlushMeetsAll DEF LinesOf
<1> QED  BY <1>2, DataLooked

LEMMA UncacheKeeps ==
  ASSUME CacheInv, NEW b \in Blocks, NEW how \in {"remapped", "malloced"}, Uncache(b, how)
  PROVE  CacheInv'
<1> DEFINE P == {p \in DOMAIN dcache : dcache[p].line \in Flushed(b)}
<1>1. /\ pc = "run" /\ use = "none" /\ Region(b) \cap Code = {}
      /\ use' = how /\ block' = b /\ UNCHANGED <<icache, last, pc>>
  BY DEF Uncache
<1>2. /\ mem' = WrittenBack(P)
      /\ dcache' = [p \in DOMAIN dcache |-> IF p \in P THEN Empty ELSE dcache[p]]
  BY DEF Uncache, DcacheFlush
<1>3. CacheTypes /\ P \in SUBSET (0 .. DLines - 1) /\ b \in Nat \X Nat
  BY CacheAssumption DEF CacheInv, CacheTypes, Mapped, Words
<1>4. \A w \in LinesOf(b) : Held(dcache, w) => Place(w, DLines) \in P
  BY <1>3, FlushedPlaces
<1> HIDE DEF P
<1>5. /\ Mapped(dcache, DLines)' /\ (mem \in [Words -> Values])' /\ SeenIsTrue'
      /\ \A w \in Words :
           /\ mem[w] = last[w] => mem'[w] = last[w]
           /\ (Held(dcache, w) => Place(w, DLines) \in P) => ~Held(dcache', w) /\ mem'[w] = last[w]
  BY <1>1, <1>2, <1>3, FlushKeeps
<1>6. CacheTypes'  BY <1>1, <1>3, <1>5 DEF CacheTypes, Mapped
<1>7. BlockIsOut'  BY <1>1, <1>4, <1>5 DEF BlockIsOut, LinesOf
<1>8. CodeIsOut'  BY <1>1, <1>5, CacheAssumption DEF CacheInv, CodeIsOut
<1> QED  BY <1>5, <1>6, <1>7, <1>8 DEF CacheInv

LEMMA EndKeeps ==
  ASSUME CacheInv, NEW how \in {"remapped", "malloced", "given"}, End(how)
  PROVE  CacheInv'
<1>1. pc = "run" /\ use = how /\ use' = "none" /\ UNCHANGED <<mem, dcache, icache, last, block, pc>>
  BY DEF End
<1>2. CacheTypes  BY DEF CacheInv
<1>3. CacheTypes'  BY <1>1, <1>2 DEF CacheTypes, Mapped
<1>4. SeenIsTrue'
  <2> SUFFICES ASSUME NEW w \in Words
               PROVE  Seen(w) = last[w] /\ (Held(dcache, w) /\ ~Dirty(w) => Cached(w) = mem[w])
    BY <1>1 DEF SeenIsTrue, Seen, Cached, Dirty
  <2>1. CASE w \in LinesOf(block)
    BY <1>1, <1>2, <2>1, DataLooked DEF CacheInv, BlockIsOut
  <2>2. CASE w \notin LinesOf(block)  BY <2>2 DEF CacheInv, SeenIsTrue
  <2> QED  BY <2>1, <2>2
<1>5. BlockIsOut'  BY <1>1 DEF BlockIsOut
<1>6. CodeIsOut'  BY <1>1 DEF CacheInv, CodeIsOut
<1> QED  BY <1>3, <1>4, <1>5, <1>6 DEF CacheInv

LEMMA GiveKeeps ==
  ASSUME ~Sharing, BuffersFillLines, CacheInv, NEW b \in Buffers, Give(b)
  PROVE  CacheInv'
<1> DEFINE P == {p \in DOMAIN dcache : dcache[p].line \in Flushed(b)}
<1>1. /\ pc = "run" /\ use = "none" /\ Region(b) \cap Code = {}
      /\ use' = "given" /\ block' = b /\ UNCHANGED <<mem, icache, pc>>
      /\ last' = [w \in Words |-> IF w \in LinesOf(b) THEN mem[w] ELSE last[w]]
  BY DEF Give, DcacheFlushNoWriteback
<1>2. dcache' = [p \in DOMAIN dcache |-> IF p \in P THEN Empty ELSE dcache[p]]
  BY DEF Give, DcacheFlushNoWriteback
<1>3. /\ CacheTypes /\ b \in Nat \X Nat /\ Mapped(dcache, DLines) /\ DLines \in Nat \ {0}
  BY CacheAssumption DEF CacheInv, CacheTypes, Words
<1>4. \A w \in LinesOf(b) : Held(dcache, w) => Place(w, DLines) \in P
  BY <1>3, FlushedPlaces
<1>5. \A w \in Words : Held(dcache, w) /\ w \notin LinesOf(b) => Place(w, DLines) \notin P
  BY <1>3, DataLooked DEF BuffersFillLines
<1> HIDE DEF P
<1>6. /\ Mapped(dcache', DLines)
      /\ \A w \in Words :
           /\ Held(dcache', w) <=> Held(dcache, w) /\ Place(w, DLines) \notin P
           /\ Held(dcache', w) => dcache'[Place(w, DLines)] = dcache[Place(w, DLines)]
  BY <1>2, <1>3, Emptied
<1>7. CacheTypes'
  <2>1. last' \in [Words -> Values]  BY <1>1, <1>3 DEF CacheTypes
  <2> QED  BY <1>1, <1>3, <1>6, <2>1 DEF CacheTypes, Mapped
<1>8. SeenIsTrue'
  <2> SUFFICES ASSUME NEW w \in Words
               PROVE  /\ w \notin LinesOf(b) => Seen(w)' = last'[w]
                      /\ Held(dcache', w) /\ ~Dirty(w)' => Cached(w)' = mem[w]
    BY <1>1 DEF SeenIsTrue
  <2>1. Seen(w) = last[w] /\ (Held(dcache, w) /\ ~Dirty(w) => Cached(w) = mem[w])
    BY <1>1 DEF CacheInv, SeenIsTrue
  <2>2. Seen(w) = IF Held(dcache, w) THEN Cached(w) ELSE mem[w]  BY <1>3, DataLooked
  <2>3. /\ Seen(w)' = IF Held(dcache', w) THEN dcache'[Place(w, DLines)].data[w] ELSE mem[w]
        /\ Dirty(w)' <=> Held(dcache', w) /\ dcache'[Place(w, DLines)].dirty
        /\ Cached(w)' = dcache'[Place(w, DLines)].data[w]
    BY <1>1 DEF Seen, Dirty, Cached, Place
  <2>4. w \notin LinesOf(b) => last'[w] = last[w]  BY <1>1
  <2> QED  BY <1>5, <1>6, <2>1, <2>2, <2>3, <2>4 DEF Cached, Dirty
<1>9. BlockIsOut'
  <2>1. ASSUME NEW w \in LinesOf(b) PROVE ~Held(dcache', w) /\ mem[w] = last'[w]
    BY <1>1, <1>4, <1>6 DEF LinesOf
  <2> QED  BY <1>1, <2>1 DEF BlockIsOut
<1>10. CodeIsOut'
  <2>1. ASSUME NEW w \in Code PROVE mem[w] = last[w] /\ last'[w] = last[w]
    BY <1>1, CacheAssumption DEF CacheInv, CodeIsOut
  <2> QED  BY <1>1, <2>1 DEF CacheInv, CodeIsOut
<1> QED  BY <1>7, <1>8, <1>9, <1>10 DEF CacheInv

LEMMA FlushDataKeeps ==
  ASSUME CacheInv, FlushData
  PROVE  CacheInv'
<1>1. pc = "copied" /\ pc' = "flushed" /\ UNCHANGED <<icache, last, use, block>>
  BY DEF FlushData
<1>2. use = "none"  BY <1>1 DEF CacheInv, BlockIsOut
<1>3. CacheTypes /\ block \in Nat \X Nat /\ DOMAIN dcache = 0 .. DLines - 1
  BY DEF CacheInv, CacheTypes, Mapped
<1>4. PICK P \in SUBSET (0 .. DLines - 1) :
        /\ mem' = WrittenBack(P)
        /\ dcache' = [p \in DOMAIN dcache |-> IF p \in P THEN Empty ELSE dcache[p]]
        /\ \A w \in LinesOf(block) : Held(dcache, w) => Place(w, DLines) \in P
  <2>1. CASE DcacheFlush(block)
    <3> DEFINE P == {p \in DOMAIN dcache : dcache[p].line \in Flushed(block)}
    <3>1. /\ mem' = WrittenBack(P)
          /\ dcache' = [p \in DOMAIN dcache |-> IF p \in P THEN Empty ELSE dcache[p]]
      BY <2>1 DEF DcacheFlush
    <3>2. \A w \in LinesOf(block) : Held(dcache, w) => Place(w, DLines) \in P
      BY <1>3, FlushedPlaces
    <3>3. P \in SUBSET (0 .. DLines - 1)  BY <1>3
    <3> QED  BY <3>1, <3>2, <3>3
  <2>2. CASE DcacheFlushAll
    <3>1. /\ mem' = WrittenBack(0 .. DLines - 1)
          /\ dcache' = [p \in DOMAIN dcache |-> IF p \in 0 .. DLines - 1 THEN Empty ELSE dcache[p]]
      BY <1>3, <2>2 DEF DcacheFlushAll
    <3>2. \A w \in LinesOf(block) : Place(w, DLines) \in 0 .. DLines - 1
      BY <1>3, DataLooked DEF LinesOf
    <3> QED  BY <3>1, <3>2
  <2> QED  BY <2>1, <2>2 DEF FlushData
<1>5. /\ Mapped(dcache, DLines)' /\ (mem \in [Words -> Values])' /\ SeenIsTrue'
      /\ \A w \in Words :
           /\ mem[w] = last[w] => mem'[w] = last[w]
           /\ (Held(dcache, w) => Place(w, DLines) \in P) => ~Held(dcache', w) /\ mem'[w] = last[w]
  BY <1>1, <1>2, <1>4, FlushKeeps
<1>6. CacheTypes'  BY <1>1, <1>3, <1>5 DEF CacheTypes, Mapped
<1>7. BlockIsOut'  BY <1>1, <1>2 DEF BlockIsOut
<1>8. CodeIsOut'
  <2> SUFFICES ASSUME NEW w \in Code
               PROVE  /\ mem'[w] = last[w]
                      /\ w \notin Region(block) /\ Held(icache, w)
                           => icache[Place(w, ILines)].data[w] = last[w]
    BY <1>1 DEF CodeIsOut
  <2>1. w \in Words  BY CacheAssumption
  <2>2. CASE w \in Region(block)
    <3>1. w \in LinesOf(block)  BY <2>1, <2>2 DEF LinesOf
    <3> QED  BY <1>4, <1>5, <2>1, <2>2, <3>1
  <2>3. CASE w \notin Region(block)
    BY <1>1, <1>5, <2>1, <2>3 DEF CacheInv, CodeIsOut
  <2> QED  BY <2>2, <2>3
<1> QED  BY <1>5, <1>6, <1>7, <1>8 DEF CacheInv

LEMMA FlushInstructionsKeeps ==
  ASSUME CacheInv, FlushInstructions
  PROVE  CacheInv'
<1>1. pc = "flushed" /\ pc' = "run" /\ UNCHANGED <<mem, dcache, last, use, block>>
  BY DEF FlushInstructions
<1>2. /\ CacheTypes /\ block \in Nat \X Nat /\ Mapped(icache, ILines) /\ ILines \in Nat \ {0}
      /\ DOMAIN icache = 0 .. ILines - 1
  BY CacheAssumption DEF CacheInv, CacheTypes, Mapped
<1>3. PICK P :
        /\ icache' = [p \in DOMAIN icache |-> IF p \in P THEN Empty ELSE icache[p]]
        /\ \A w \in Region(block) : Place(w, ILines) \in P
  <2>1. CASE IcacheFlush(block)
    <3> DEFINE F == Flushed(<<block[1], Trimmed(block[2])>>)
               P == {p \in 0 .. ILines - 1 : \E l \in F : p = l % ILines}
    <3>1. icache' = [p \in DOMAIN icache |-> IF p \in P THEN Empty ELSE icache[p]]
      BY <1>2, <2>1 DEF IcacheFlush
    <3>2. ASSUME NEW w \in Region(block) PROVE Place(w, ILines) \in P
      <4>1. \E l \in F : l % ILines = Place(w, ILines)  BY <1>2, TrimmedMeetsAll
      <4>2. Place(w, ILines) \in 0 .. ILines - 1  BY LineOfType DEF Region
      <4> QED  BY <4>1, <4>2
    <3> QED  BY <3>1, <3>2
  <2>2. CASE IcacheFlushAll
    <3> DEFINE b == <<0, ILines * LineSize>>
               F == Flushed(<<b[1], Trimmed(b[2])>>)
               P == {p \in 0 .. ILines - 1 : \E l \in F : p = l % ILines}
    <3>1. icache' = [p \in DOMAIN icache |-> IF p \in P THEN Empty ELSE icache[p]]
      BY <1>2, <2>2 DEF IcacheFlushAll, IcacheFlush
    <3>2. ASSUME NEW w \in Region(block) PROVE Place(w, ILines) \in P
      <4>1. <<b[1], Trimmed(b[2])>> = <<0, ILines * LineSize>>  BY DEF Trimmed
      <4>2. \E l \in F : l % ILines = Place(w, ILines)  BY <4>1, RowMeetsAll DEF Region
      <4>3. Place(w, ILines) \in 0 .. ILines - 1  BY LineOfType DEF Region
      <4> QED  BY <4>2, <4>3
    <3> QED  BY <3>1, <3>2
  <2> QED  BY <2>1, <2>2 DEF FlushInstructions
<1>4. /\ Mapped(icache', ILines)
      /\ \A w \in Words :
           /\ Held(icache', w) <=> Held(icache, w) /\ Place(w, ILines) \notin P
           /\ Held(icache', w) => icache'[Place(w, ILines)] = icache[Place(w, ILines)]
  <2>1. Mapped(icache, ILines) /\ ILines \in Nat \ {0}  BY <1>2
  <2>2. icache' = [p \in DOMAIN icache |-> IF p \in P THEN Empty ELSE icache[p]]  BY <1>3
  <2> QED  BY <2>1, <2>2, Emptied
<1>5. CacheTypes'  BY <1>1, <1>2, <1>4 DEF CacheTypes, Mapped
<1>6. SeenIsTrue' /\ BlockIsOut'
  BY <1>1 DEF CacheInv, SeenIsTrue, BlockIsOut, Seen, Cached, Dirty
<1>7. CodeIsOut'
  BY <1>1, <1>3, <1>4, CacheAssumption DEF CacheInv, CodeIsOut
<1> QED  BY <1>5, <1>6, <1>7 DEF CacheInv

LEMMA CacheStepKeeps ==
  ASSUME ~Sharing, BuffersFillLines, CacheInv, [CacheNext]_cacheVars
  PROVE  CacheInv'
<1>1. ASSUME NEW a \in Words, Read(a) \/ Execute(a) PROVE CacheInv'
  BY <1>1, ReadKeeps, ExecuteKeeps
<1>2. ASSUME NEW a \in Words, NEW v \in Values, Write(a, v) PROVE CacheInv'
  BY <1>2, WriteKeeps
<1>3. ASSUME NEW a \in Words, NEW v \in Values, Copy(a, v) PROVE CacheInv'
  BY <1>3, CopyKeeps
<1>4. ASSUME NEW a \in Words, NEW v \in Values, WriteUncached(a, v) \/ DeviceWrite(a, v)
      PROVE  CacheInv'
  <2>1. /\ use # "none" /\ a \in Region(block)
        /\ mem' = [mem EXCEPT ![a] = v] /\ last' = [last EXCEPT ![a] = v]
        /\ UNCHANGED <<dcache, icache, use, block, pc>>
    BY <1>4 DEF WriteUncached, DeviceWrite
  <2> QED  BY <2>1, PastCacheKeeps
<1>5. ASSUME NEW b \in Blocks, alt_remap_uncached(b) \/ alt_uncached_malloc(b) PROVE CacheInv'
  BY <1>5, UncacheKeeps DEF alt_remap_uncached, alt_uncached_malloc
<1>6. ASSUME NEW b \in Buffers, Give(b) PROVE CacheInv'
  BY <1>6, GiveKeeps
<1>7. CASE alt_remap_cached \/ alt_uncached_free \/ Take
  BY <1>7, EndKeeps DEF alt_remap_cached, alt_uncached_free, Take
<1>8. CASE FlushData  BY <1>8, FlushDataKeeps
<1>9. CASE FlushInstructions  BY <1>9, FlushInstructionsKeeps
<1>10. CASE UNCHANGED cacheVars
  BY <1>10 DEF cacheVars, CacheInv, CacheTypes, Mapped, SeenIsTrue, BlockIsOut, CodeIsOut,
               Seen, Cached, Dirty
<1> QED  BY <1>1, <1>2, <1>3, <1>4, <1>5, <1>6, <1>7, <1>8, <1>9, <1>10 DEF CacheNext

LEMMA CachesAgree ==
  ASSUME ~Sharing, CacheInv PROVE CachesAreTrue
<1>1. CachedIsTrue  BY DEF CachedIsTrue, CacheInv, SeenIsTrue, Unshared
<1>2. UncachedIsTrue
  BY DEF UncachedIsTrue, CacheInv, BlockIsOut, LinesOf, Region
<1>3. CodeIsFresh
  <2> SUFFICES ASSUME pc = "run", NEW a \in Code PROVE Fetch(a) = last[a]
    BY DEF CodeIsFresh
  <2> QED  BY DEF CacheInv, CodeIsOut, Fetch, Place
<1> QED  BY <1>1, <1>2, <1>3 DEF CachesAreTrue

(* However blocks are used past the caches, given to devices, copied and   *)
(* executed, no word is read from a stale copy (alt_cache.h, alt_load.c),  *)
(* in caches and memories of any size: if nobody uses the words that a     *)
(* block leaves of its lines meanwhile, and no buffer that is dropped      *)
(* drops a line beside it.                                                 *)
THEOREM CachesStayTrue ==
  ASSUME ~Sharing, BuffersFillLines
  PROVE  CacheSpec => []CachesAreTrue
<1>1. CacheInit => CacheInv  BY CacheStarts
<1>2. CacheInv /\ [CacheNext]_cacheVars => CacheInv'  BY CacheStepKeeps
<1>3. CacheInv => CachesAreTrue  BY CachesAgree
<1> QED  BY <1>1, <1>2, <1>3, PTL DEF CacheSpec
-----------------------------------------------------------------------------
(* The alarms.                                                             *)

\* The nodes that are in the list.
Listed == registered \cup {List}

\* Where the walk goes on.
Cursor == IF phase = "callback" THEN following ELSE at
Ahead == From(Cursor)

\* The links of the list are each other's inverse, and one who is not in it
\* may link to itself.
Linked ==
  /\ \A a \in Listed : /\ next[a] \in Listed /\ previous[a] \in Listed
                       /\ previous[next[a]] = a /\ next[previous[a]] = a
  /\ \A a \in Alarm \ registered : next[a] = a => previous[a] = a

\* All of it is met from its head.
Whole == \A a \in registered : a \in From(next[List])

\* The walk is in the list, and goes on with another than the one it calls.
Walking ==
  /\ at \in Listed /\ following \in Listed
  /\ phase = "idle" => at = List
  /\ IF phase = "callback"
       THEN at # List /\ following # at /\ called = at
       ELSE following = List /\ called = None

(***************************************************************************)
(* The time of an alarm is as many ticks from the clock's as are left, the *)
(* wrap between counted in; while the walk of the tick that wraps has not  *)
(* come to the alarm, its flag is old.  Behind the walk nothing is due.    *)
(***************************************************************************)
Left(a, wraps) == time[a] + (IF wraps THEN Wrap ELSE 0) = nticks + due[a]

Behind(a) == due[a] \in 1 .. Wrap - 1 /\ Left(a, rollover[a])
InFront(a) == due[a] \in 0 .. Wrap - 1 /\ Left(a, StillRollsOver(a))
Calling(a) == due[a] = 0 /\ time[a] = nticks /\ ~rollover[a]

InTime ==
  \A a \in registered :
    IF phase = "callback" /\ a = at THEN Calling(a)
    ELSE InFront(a) /\ (a \notin Ahead => Behind(a))

AlarmInv == AlarmTypes /\ Linked /\ Whole /\ Walking /\ InTime

-----------------------------------------------------------------------------
(* Ways along links n: From, for any links.                                *)

ClosedUnder(n, S) == \A b \in S \ {List} : n[b] \in S
Way(n, a) == {b \in Node : \A S \in SUBSET Node : a \in S /\ ClosedUnder(n, S) => b \in S}

LEMMA FromIsWay ==
  /\ \A a : From(a) = Way(next, a)
  /\ \A a : a \in Node => a \in Way(next, a)
  BY DEF From, Closed, Way, ClosedUnder

LEMMA WayEnds == ASSUME NEW n PROVE Way(n, List) = {List}
<1>1. {List} \in SUBSET Node /\ ClosedUnder(n, {List})  BY DEF Node, ClosedUnder
<1>2. List \in Node  BY DEF Node
<1>3. Way(n, List) \subseteq {List}  BY <1>1 DEF Way
<1>4. List \in Way(n, List)  BY <1>2 DEF Way
<1> QED  BY <1>3, <1>4

\* Past its first node a way misses nothing else.
LEMMA WayGoesOn ==
  ASSUME NEW n, NEW a \in Node, n[a] \in Node, NEW b \in Way(n, a), b # a
  PROVE  b \in Way(n, n[a])
<1> SUFFICES ASSUME NEW S \in SUBSET Node, n[a] \in S, ClosedUnder(n, S) PROVE b \in S
  BY DEF Way
<1>1. S \cup {a} \in SUBSET Node  OBVIOUS
<1>2. ClosedUnder(n, S \cup {a})  BY DEF ClosedUnder
<1>3. b \in S \cup {a}  BY <1>1, <1>2 DEF Way
<1> QED  BY <1>3

LEMMA WayInside ==
  ASSUME NEW n, NEW R \in SUBSET Node, NEW a \in R, ClosedUnder(n, R)
  PROVE  Way(n, a) \subseteq R
  BY DEF Way

\* Links that are as they were in R lead as far from there.
LEMMA WayAsBefore ==
  ASSUME NEW n, NEW m, NEW R \in SUBSET Node, ClosedUnder(n, R),
         \A c \in R \ {List} : m[c] = n[c], NEW a \in R
  PROVE  Way(n, a) \subseteq Way(m, a)
<1> SUFFICES ASSUME NEW b \in Way(n, a), NEW S \in SUBSET Node, a \in S, ClosedUnder(m, S)
             PROVE  b \in S
  BY DEF Way
<1>1. S \cap R \in SUBSET Node /\ a \in S \cap R  OBVIOUS
<1>2. ClosedUnder(n, S \cap R)  BY DEF ClosedUnder
<1>3. b \in S \cap R  BY <1>1, <1>2 DEF Way
<1> QED  BY <1>3

\* n and p link R both ways, and m is n past x.
PastOne(n, p, m, R, x) ==
  /\ R \in SUBSET Node /\ List \in R /\ x \in R \ {List}
  /\ \A c \in R : n[c] \in R /\ p[c] \in R /\ p[n[c]] = c /\ n[p[c]] = c
  /\ \A c \in R : m[c] = IF c = x THEN x ELSE IF c = p[x] THEN n[x] ELSE n[c]

\* A way past x from another node misses nothing but x.
LEMMA WayPastOne ==
  ASSUME NEW n, NEW p, NEW m, NEW R, NEW x, PastOne(n, p, m, R, x),
         NEW a \in R \ {x}, NEW b \in Way(n, a) \ {x}
  PROVE  b \in Way(m, a)
<1> USE DEF PastOne
<1> SUFFICES ASSUME NEW S \in SUBSET Node, a \in S, ClosedUnder(m, S) PROVE b \in S
  BY DEF Way
<1> DEFINE T == (S \cap R) \ {x}
<1>1. a \in T /\ T \in SUBSET Node  OBVIOUS
<1>2. \A c \in T \ {List} : c # p[x] => n[c] \in T
  <2> SUFFICES ASSUME NEW c \in T \ {List}, c # p[x] PROVE n[c] \in T
    OBVIOUS
  <2>1. m[c] = n[c] /\ m[c] \in S /\ n[c] \in R  BY DEF ClosedUnder
  <2>2. n[c] # x  OBVIOUS
  <2> QED  BY <2>1, <2>2
<1>3. CASE p[x] \in T \ {List}
  <2>1. n[x] \in T
    <3>1. m[p[x]] = n[x] /\ m[p[x]] \in S  BY <1>3 DEF ClosedUnder
    <3>2. n[x] # x /\ n[x] \in R  BY <1>3
    <3> QED  BY <3>1, <3>2
  <2>2. n[p[x]] = x  OBVIOUS
  <2>3. ClosedUnder(n, T \cup {x})
    <3> SUFFICES ASSUME NEW c \in (T \cup {x}) \ {List} PROVE n[c] \in T \cup {x}
      BY DEF ClosedUnder
    <3>1. CASE c = x  BY <3>1, <2>1
    <3>2. CASE c = p[x]  BY <3>2, <2>2
    <3>3. CASE c \in T \ {List} /\ c # p[x]  BY <3>3, <1>2
    <3> QED  BY <3>1, <3>2, <3>3
  <2>4. T \cup {x} \in SUBSET Node /\ a \in T \cup {x}  BY <1>1
  <2> HIDE DEF T
  <2>5. b \in T \cup {x}  BY <2>3, <2>4 DEF Way
  <2> QED  BY <2>5 DEF T
<1>4. CASE p[x] \notin T \ {List}
  <2>1. ClosedUnder(n, T)  BY <1>2, <1>4 DEF ClosedUnder
  <2> HIDE DEF T
  <2>2. b \in T  BY <1>1, <2>1 DEF Way
  <2> QED  BY <2>2 DEF T
<1> QED  BY <1>3, <1>4

\* The same from the node the head leads to.
LEMMA WholePastOne ==
  ASSUME NEW n, NEW p, NEW m, NEW R, NEW x, PastOne(n, p, m, R, x),
         NEW b \in Way(n, n[List]) \ {x}
  PROVE  b \in Way(m, m[List])
<1>1. CASE p[x] = List
  <2>1. n[List] = x /\ m[List] = n[x] /\ n[x] \in R /\ n[x] # x  BY <1>1 DEF PastOne
  <2>2. x \in Node /\ n[x] \in Node /\ b \in Way(n, x) /\ b # x  BY <2>1 DEF PastOne
  <2>3. b \in Way(n, n[x])  BY <2>2, WayGoesOn
  <2> QED  BY <2>1, <2>3, WayPastOne
<1>2. CASE p[x] # List
  <2>1. m[List] = n[List] /\ n[List] \in R /\ n[List] # x  BY <1>2 DEF PastOne
  <2> QED  BY <2>1, WayPastOne
<1> QED  BY <1>1, <1>2
-----------------------------------------------------------------------------
(* A time in a word.                                                       *)
LEMMA WrapOver ==
  ASSUME NEW n \in 0 .. Wrap - 1, NEW d \in 0 .. Wrap - 1
  PROVE  /\ Word(n + d) \in 0 .. Wrap - 1
         /\ Word(n + d) + (IF Word(n + d) < n THEN Wrap ELSE 0) = n + d
<1>1. Wrap \in Nat /\ Wrap >= 2  BY AlarmAssumption
<1>2. CASE n + d < Wrap
  <2>1. (n + d) % Wrap = n + d  BY <1>1, <1>2
  <2> QED  BY <1>1, <1>2, <2>1 DEF Word
<1>3. CASE n + d >= Wrap
  <2>1. (n + d) % Wrap = n + d - Wrap
    <3> DEFINE r == n + d - Wrap
    <3>1. r \in 0 .. Wrap - 1 /\ n + d = 1 * Wrap + r  BY <1>1, <1>3
    <3> HIDE DEF r
    <3>2. (n + d) % Wrap = r  BY <1>1, <3>1, SMT
    <3> QED  BY <3>2 DEF r
  <2> QED  BY <1>1, <1>3, <2>1 DEF Word
<1> QED  BY <1>1, <1>2, <1>3

\* An alarm that is behind the walk could be in front of it.
LEMMA BehindIsInFront ==
  ASSUME NEW a, Behind(a), time[a] \in Nat, nticks \in Nat
  PROVE  InFront(a)
  BY AlarmAssumption DEF Behind, InFront, Left, StillRollsOver
-----------------------------------------------------------------------------
(* The steps.                                                              *)

LEMMA AlarmStarts == AlarmInit => AlarmInv
<1> SUFFICES ASSUME AlarmInit PROVE AlarmInv  OBVIOUS
<1>1. AlarmTypes
  <2>1. nticks \in 0 .. Wrap - 1 /\ time \in [Alarm -> 0 .. Wrap - 1] /\ due \in [Alarm -> Int]
    BY AlarmAssumption DEF AlarmInit
  <2>2. next \in [Node -> Node] /\ previous \in [Node -> Node]
    BY DEF AlarmInit, Node
  <2> QED  BY <2>1, <2>2 DEF AlarmInit, AlarmTypes, Node, None
<1>2. Linked  BY AlarmAssumption DEF AlarmInit, Linked, Listed, Node
<1>3. Whole /\ Walking /\ InTime
  BY DEF AlarmInit, Whole, Walking, InTime, Listed, None
<1> QED  BY <1>1, <1>2, <1>3 DEF AlarmInv

\* The list is as it was, and so is what is in front of the walk.
LEMMA ListKept ==
  ASSUME AlarmInv, UNCHANGED <<links, registered>>
  PROVE  Linked' /\ Whole' /\ (UNCHANGED Cursor => UNCHANGED Ahead)
  BY DEF AlarmInv, Linked, Whole, Listed, links, Ahead, From, Closed

\* The walk goes on behind an alarm it has not called, or called.
LEMMA AheadShrinks ==
  ASSUME AlarmInv, NEW a \in Node, next[a] \in Node, NEW b \in From(a), b # a
  PROVE  b \in From(next[a])
  BY FromIsWay, WayGoesOn

LEMMA TickKeeps == ASSUME AlarmInv, Tick PROVE AlarmInv'
<1>1. phase = "idle" /\ phase' = "walk" /\ at' = next[List] /\ nticks' = Word(nticks + 1)
  BY DEF Tick
<1>2. AlarmTypes'
  <2>1. Word(nticks + 1) \in 0 .. Wrap - 1
    BY WrapOver, AlarmAssumption DEF AlarmInv, AlarmTypes
  <2>2. next[List] \in Node  BY DEF AlarmInv, AlarmTypes, Node
  <2>3. due' \in [Alarm -> Int]  BY DEF AlarmInv, AlarmTypes, Tick
  <2> QED  BY <1>1, <2>1, <2>2, <2>3 DEF AlarmInv, AlarmTypes, Tick, links
<1>3. Linked' /\ Whole'  BY ListKept DEF Tick, links
<1>4. Walking'
  BY <1>1 DEF Tick, AlarmInv, Walking, Linked, Listed
<1>5. InTime'
  <2> SUFFICES ASSUME NEW a \in registered PROVE InFront(a)' /\ a \in Ahead'
    BY <1>1 DEF InTime, Tick
  <2>1. a \in Ahead'
    <3>1. a \in From(next[List])  BY DEF AlarmInv, Whole
    <3> QED  BY <1>1, <3>1 DEF Ahead, Cursor, From, Closed, Tick, links
  <2>2. a \notin Ahead
    <3>1. a # List  BY AlarmAssumption DEF AlarmInv, AlarmTypes
    <3>2. Ahead = {List}  BY <1>1, WayEnds, FromIsWay DEF Ahead, Cursor, AlarmInv, Walking
    <3> QED  BY <3>1, <3>2
  <2>3. Behind(a)  BY <1>1, <2>2 DEF AlarmInv, InTime
  <2>5. due'[a] = due[a] - 1 /\ time' = time /\ rollover' = rollover
    BY DEF Tick, AlarmInv, AlarmTypes
  <2>6. /\ nticks \in 0 .. Wrap - 1 /\ time[a] \in 0 .. Wrap - 1 /\ rollover[a] \in BOOLEAN
        /\ Wrap \in Nat /\ Wrap >= 2
    BY AlarmAssumption DEF AlarmInv, AlarmTypes
  <2>7. nticks' = IF nticks + 1 = Wrap THEN 0 ELSE nticks + 1
    <3>1. Word(nticks + 1) \in 0 .. Wrap - 1
          /\ Word(nticks + 1) + (IF Word(nticks + 1) < nticks THEN Wrap ELSE 0) = nticks + 1
      BY <2>6, WrapOver
    <3> QED  BY <1>1, <2>6, <3>1
  <2>8. due[a] \in 1 .. Wrap - 1 /\ time[a] + (IF rollover[a] THEN Wrap ELSE 0) = nticks + due[a]
    BY <2>3 DEF Behind, Left
  <2>9. due'[a] \in 0 .. Wrap - 1
    BY <2>5, <2>6, <2>8
  <2>10. time[a] + (IF rollover[a] /\ nticks' # 0 THEN Wrap ELSE 0) = nticks' + due'[a]
    <3>1. CASE nticks + 1 = Wrap
      <4>1. nticks' = 0  BY <2>7, <3>1
      <4>2. time[a] = due[a] - 1
        BY <2>6, <2>8, <3>1
      <4> QED  BY <2>5, <2>6, <4>1, <4>2
    <3>2. CASE nticks + 1 # Wrap
      <4>1. nticks' = nticks + 1 /\ nticks' # 0  BY <2>6, <2>7, <3>2
      <4> QED  BY <2>5, <2>6, <2>8, <4>1
    <3> QED  BY <3>1, <3>2
  <2> QED  BY <2>1, <2>5, <2>9, <2>10 DEF InFront, Left, StillRollsOver
<1> QED  BY <1>2, <1>3, <1>4, <1>5 DEF AlarmInv

LEMMA TickEndsKeeps == ASSUME AlarmInv, TickEnds PROVE AlarmInv'
<1>1. AlarmTypes'  BY DEF AlarmInv, AlarmTypes, TickEnds, links
<1>2. Linked' /\ Whole' /\ UNCHANGED Ahead
  BY ListKept DEF TickEnds, links, Cursor
<1>3. Walking'  BY DEF AlarmInv, Walking, Listed, TickEnds
<1>4. InTime'
  BY <1>2 DEF AlarmInv, InTime, TickEnds, Calling, InFront, Behind, Left, StillRollsOver
<1> QED  BY <1>1, <1>2, <1>3, <1>4 DEF AlarmInv

LEMMA InitKeeps == ASSUME AlarmInv, SysClkInit \/ UNCHANGED alarmVars PROVE AlarmInv'
<1>1. AlarmTypes'  BY DEF AlarmInv, AlarmTypes, SysClkInit, alarmVars, links, walk
<1>2. Linked' /\ Whole' /\ UNCHANGED Ahead
  BY ListKept DEF SysClkInit, alarmVars, links, walk, Cursor
<1>3. Walking'  BY DEF AlarmInv, Walking, Listed, SysClkInit, alarmVars, walk
<1>4. InTime'
  BY <1>2 DEF AlarmInv, InTime, SysClkInit, alarmVars, walk, Calling, InFront, Behind, Left, StillRollsOver
<1> QED  BY <1>1, <1>2, <1>3, <1>4 DEF AlarmInv

LEMMA VisitKeeps == ASSUME AlarmInv, Visit PROVE AlarmInv'
<1>1. /\ phase = "walk" /\ at \in registered /\ following = List /\ called = None
      /\ next[at] \in Listed /\ next[at] \in Node /\ at \in Alarm /\ at \in Node
      /\ List \notin Alarm
  BY AlarmAssumption DEF Visit, AlarmInv, AlarmTypes, Walking, Linked, Listed, Node
<1>2. /\ rollover' = [rollover EXCEPT ![at] = StillRollsOver(at)]
      /\ UNCHANGED <<nticks, rate, next, previous, time, registered, due>>
  BY DEF Visit, links
<1>3. StillRollsOver(at) \in BOOLEAN
  BY <1>1 DEF StillRollsOver, AlarmInv, AlarmTypes
<1>4. InFront(at) /\ time[at] \in 0 .. Wrap - 1 /\ nticks \in 0 .. Wrap - 1
  BY <1>1 DEF AlarmInv, InTime, AlarmTypes
<1>5. next[at] # at
  <2>1. at \in From(next[List])  BY <1>1 DEF AlarmInv, Whole
  <2> SUFFICES ASSUME next[at] = at PROVE FALSE
    OBVIOUS
  <2>2. previous[at] = at  BY <1>1 DEF AlarmInv, Linked, Listed
  <2> DEFINE R == Listed \ {at}
  <2>3. R \in SUBSET Node  BY DEF Listed, AlarmInv, AlarmTypes, Node
  <2>4. \A c \in R : next[c] \in R
    BY <2>2 DEF AlarmInv, Linked, Listed
  <2>5. next[List] \in R  BY <1>1, <2>4 DEF Listed
  <2> HIDE DEF R
  <2>6. Way(next, next[List]) \subseteq R  BY <2>3, <2>4, <2>5, WayInside DEF ClosedUnder
  <2>7. at \in R  BY <2>1, <2>6, FromIsWay
  <2> QED  BY <2>7 DEF R
<1>6. CASE Expired(at)
  <2>1. phase' = "callback" /\ following' = next[at] /\ called' = at /\ at' = at
    BY <1>6 DEF Visit
  <2>2. due[at] = 0 /\ time[at] = nticks /\ ~StillRollsOver(at)
    BY <1>4, <1>6, AlarmAssumption DEF Expired, InFront, Left
  <2>3. AlarmTypes'  BY <1>1, <1>2, <1>3, <2>1 DEF AlarmInv, AlarmTypes
  <2>4. Linked' /\ Whole'  BY <1>2, ListKept DEF links
  <2>5. Walking'  BY <1>1, <1>2, <1>5, <2>1 DEF Walking, Listed
  <2>6. ASSUME NEW a \in registered, a # at, a \in Ahead PROVE a \in Ahead'
    <3>1. a \in From(next[at])  BY <1>1, <2>6, AheadShrinks DEF Ahead, Cursor
    <3> QED  BY <1>2, <2>1, <3>1 DEF Ahead, Cursor, From, Closed
  <2>7. InTime'
    <3> SUFFICES ASSUME NEW a \in registered
                 PROVE  IF a = at THEN Calling(a)' ELSE InFront(a)' /\ (a \notin Ahead' => Behind(a)')
      BY <1>2, <2>1 DEF InTime
    <3>1. CASE a = at
      BY <1>1, <1>2, <2>2, <3>1 DEF Calling, AlarmInv, AlarmTypes
    <3>2. CASE a # at
      <4>1. rollover'[a] = rollover[a]
        BY <1>1, <1>2, <3>2 DEF AlarmInv, AlarmTypes
      <4>2. InFront(a) /\ (a \notin Ahead => Behind(a))
        BY <1>1, <3>2 DEF AlarmInv, InTime
      <4> QED  BY <1>2, <2>6, <3>2, <4>1, <4>2 DEF InFront, Behind, Left, StillRollsOver
    <3> QED  BY <3>1, <3>2
  <2> QED  BY <2>3, <2>4, <2>5, <2>7 DEF AlarmInv
<1>7. CASE ~Expired(at)
  <2>1. phase' = "walk" /\ following' = following /\ called' = called /\ at' = next[at]
    BY <1>1, <1>7 DEF Visit
  <2>2. ASSUME NEW a \in registered, a = at PROVE Behind(a)'
    <3>1. rollover'[at] = StillRollsOver(at)
      BY <1>1, <1>2 DEF AlarmInv, AlarmTypes
    <3>2. due[at] \in 0 .. Wrap - 1
          /\ time[at] + (IF StillRollsOver(at) THEN Wrap ELSE 0) = nticks + due[at]
      BY <1>4 DEF InFront, Left
    <3>3. due[at] \in 1 .. Wrap - 1
      BY <1>4, <1>7, <3>2, AlarmAssumption DEF Expired
    <3> QED  BY <1>2, <2>2, <3>1, <3>2, <3>3 DEF Behind, Left
  <2>3. AlarmTypes'  BY <1>1, <1>2, <1>3, <2>1 DEF AlarmInv, AlarmTypes
  <2>4. Linked' /\ Whole'  BY <1>2, ListKept DEF links
  <2>5. Walking'  BY <1>1, <1>2, <2>1 DEF Walking, Listed
  <2>6. ASSUME NEW a \in registered, a # at, a \in Ahead PROVE a \in Ahead'
    <3>1. a \in From(next[at])  BY <1>1, <2>6, AheadShrinks DEF Ahead, Cursor
    <3> QED  BY <1>2, <2>1, <3>1 DEF Ahead, Cursor, From, Closed
  <2>7. InTime'
    <3> SUFFICES ASSUME NEW a \in registered
                 PROVE  InFront(a)' /\ (a \notin Ahead' => Behind(a)')
      BY <1>2, <2>1 DEF InTime
    <3>1. CASE a = at
      <4>1. time'[a] \in Nat /\ nticks' \in Nat
        BY <1>2, <1>4, <3>1
      <4>2. Behind(a)'  BY <2>2, <3>1
      <4>3. InFront(a)'  BY <4>1, <4>2, AlarmAssumption DEF Behind, InFront, Left, StillRollsOver
      <4> QED  BY <4>2, <4>3
    <3>2. CASE a # at
      <4>1. rollover'[a] = rollover[a]
        BY <1>1, <1>2, <3>2 DEF AlarmInv, AlarmTypes
      <4>2. InFront(a) /\ (a \notin Ahead => Behind(a))
        BY <1>1, <3>2 DEF AlarmInv, InTime
      <4> QED  BY <1>2, <2>6, <3>2, <4>1, <4>2 DEF InFront, Behind, Left, StillRollsOver
    <3> QED  BY <3>1, <3>2
  <2> QED  BY <2>3, <2>4, <2>5, <2>7 DEF AlarmInv
<1> QED  BY <1>6, <1>7

\* A time put off into the future.
LEMMA PutOff ==
  ASSUME NEW d \in 1 .. Wrap - 1, NEW a, nticks \in 0 .. Wrap - 1, nticks' = nticks,
         due'[a] = d, time'[a] = Word(nticks + d), rollover'[a] = (Word(nticks + d) < nticks)
  PROVE  Behind(a)' /\ InFront(a)'
<1>1. d \in 0 .. Wrap - 1 /\ Wrap \in Nat  BY AlarmAssumption
<1>2. Word(nticks + d) \in 0 .. Wrap - 1
      /\ Word(nticks + d) + (IF Word(nticks + d) < nticks THEN Wrap ELSE 0) = nticks + d
  BY <1>1, WrapOver
<1>3. Behind(a)'
  BY <1>2 DEF Behind, Left
<1> QED  BY <1>1, <1>2, <1>3 DEF Behind, InFront, Left, StillRollsOver

LEMMA CallAgainKeeps ==
  ASSUME AlarmInv, NEW wait \in Periods, CallAgain(wait)
  PROVE  AlarmInv'
<1>1. /\ phase = "callback" /\ at \in registered /\ at \in Alarm /\ following \in Listed
      /\ following \in Node /\ Calling(at) /\ nticks \in 0 .. Wrap - 1
      /\ wait \in 1 .. Wrap - 1
  BY AlarmAssumption DEF CallAgain, AlarmInv, AlarmTypes, Walking, InTime, Listed, Node
<1>2. /\ time' = [time EXCEPT ![at] = Word(time[at] + wait)]
      /\ rollover' = [rollover EXCEPT ![at] = RollsOver(time'[at]) \/ rollover[at]]
      /\ due' = [due EXCEPT ![at] = wait]
      /\ phase' = "walk" /\ at' = following /\ following' = List /\ called' = None
      /\ UNCHANGED <<nticks, rate, next, previous, registered>>
  BY DEF CallAgain, GoOn, links
<1>3. /\ time'[at] = Word(nticks + wait) /\ due'[at] = wait
      /\ Word(nticks + wait) \in 0 .. Wrap - 1
      /\ rollover'[at] = (Word(nticks + wait) < nticks)
  <2>1. time'[at] = Word(nticks + wait) /\ due'[at] = wait
    BY <1>1, <1>2 DEF AlarmInv, AlarmTypes, Calling
  <2>2. wait \in 0 .. Wrap - 1  BY <1>1, AlarmAssumption
  <2>3. Word(nticks + wait) \in 0 .. Wrap - 1  BY <1>1, <2>2, WrapOver
  <2>4. rollover'[at] = (RollsOver(time'[at]) \/ rollover[at])
    BY <1>1, <1>2 DEF AlarmInv, AlarmTypes
  <2>5. rollover'[at] = RollsOver(Word(nticks + wait))
    BY <1>1, <2>1, <2>4 DEF Calling, RollsOver
  <2> QED  BY <2>1, <2>3, <2>5 DEF RollsOver
<1>4. AlarmTypes'
  <2>1. time' \in [Alarm -> 0 .. Wrap - 1]  BY <1>1, <1>2, <1>3 DEF AlarmInv, AlarmTypes
  <2>2. RollsOver(time'[at]) \/ rollover[at] \in BOOLEAN
    BY <1>1 DEF RollsOver, AlarmInv, AlarmTypes
  <2>3. rollover' \in [Alarm -> BOOLEAN]  BY <1>1, <1>2, <2>2 DEF AlarmInv, AlarmTypes
  <2>4. due' \in [Alarm -> Int]  BY <1>1, <1>2 DEF AlarmInv, AlarmTypes
  <2>5. List \in Node  BY DEF Node
  <2> QED  BY <1>1, <1>2, <2>1, <2>3, <2>4, <2>5 DEF AlarmInv, AlarmTypes, None
<1>5. Linked' /\ Whole'  BY <1>2, ListKept DEF links
<1>6. Walking'  BY <1>1, <1>2 DEF Walking, Listed
<1>7. Ahead' = Ahead  BY <1>1, <1>2 DEF Ahead, Cursor, From, Closed
<1>8. InTime'
  <2> SUFFICES ASSUME NEW a \in registered
               PROVE  InFront(a)' /\ (a \notin Ahead' => Behind(a)')
    BY <1>2 DEF InTime
  <2>1. CASE a = at
    <3>1. due'[a] = wait /\ time'[a] = Word(nticks + wait)
          /\ rollover'[a] = (Word(nticks + wait) < nticks) /\ nticks' = nticks
      BY <1>2, <1>3, <2>1
    <3> QED  BY <1>1, <3>1, PutOff
  <2>2. CASE a # at
    <3>1. a \in Alarm  BY DEF AlarmInv, AlarmTypes
    <3>2. rollover'[a] = rollover[a] /\ time'[a] = time[a] /\ due'[a] = due[a]
      BY <1>1, <1>2, <2>2, <3>1 DEF AlarmInv, AlarmTypes
    <3>3. InFront(a) /\ (a \notin Ahead => Behind(a))
      BY <1>1, <2>2 DEF AlarmInv, InTime
    <3> QED  BY <1>2, <1>7, <3>2, <3>3 DEF InFront, Behind, Left, StillRollsOver
  <2> QED  BY <2>1, <2>2
<1> QED  BY <1>4, <1>5, <1>6, <1>8 DEF AlarmInv

LEMMA StartKeeps ==
  ASSUME AlarmInv, NEW x \in Alarm, NEW delay \in 0 .. Wrap - 2, AlarmStart(x, delay)
  PROVE  AlarmInv'
<1>1. /\ x \notin registered /\ x # at /\ x # List /\ x \in Node /\ x # following
      /\ phase # "walk" /\ nticks \in 0 .. Wrap - 1 /\ List \in Node /\ next[List] \in Listed
      /\ delay + 1 \in 1 .. Wrap - 1 /\ Wrap \in Nat /\ next[List] \in Node /\ x # next[List]
      /\ x \notin Listed /\ Listed \subseteq Node
  BY AlarmAssumption DEF AlarmStart, Node, AlarmInv, AlarmTypes, Walking, Linked, Listed
<1>2. /\ time' = [time EXCEPT ![x] = Word(delay + nticks + 1)]
      /\ rollover' = [rollover EXCEPT ![x] = RollsOver(time'[x])]
      /\ due' = [due EXCEPT ![x] = delay + 1]
      /\ next' = [next EXCEPT ![x] = next[List], ![List] = x]
      /\ previous' = [previous EXCEPT ![x] = List, ![next[List]] = x]
      /\ registered' = registered \cup {x}
      /\ UNCHANGED <<nticks, rate, phase, at, following, called>>
  BY DEF AlarmStart, Insert, walk
<1>3. /\ time'[x] = Word(nticks + (delay + 1)) /\ due'[x] = delay + 1
      /\ Word(nticks + (delay + 1)) \in 0 .. Wrap - 1
      /\ rollover'[x] = (Word(nticks + (delay + 1)) < nticks)
  <2>1. delay + nticks + 1 = nticks + (delay + 1)  BY <1>1
  <2>2. time'[x] = Word(nticks + (delay + 1)) /\ due'[x] = delay + 1
    BY <1>2, <2>1 DEF AlarmInv, AlarmTypes
  <2>3. delay + 1 \in 0 .. Wrap - 1  BY <1>1
  <2>4. Word(nticks + (delay + 1)) \in 0 .. Wrap - 1  BY <1>1, <2>3, WrapOver
  <2>5. rollover'[x] = RollsOver(Word(nticks + (delay + 1)))
    BY <1>2, <2>2 DEF AlarmInv, AlarmTypes
  <2> QED  BY <2>2, <2>4, <2>5 DEF RollsOver
<1>4. /\ next'[x] = next[List] /\ next'[List] = x
      /\ \A c \in Node : c # x /\ c # List => next'[c] = next[c]
      /\ previous'[x] = List /\ previous'[next[List]] = x
      /\ \A c \in Node : c # x /\ c # next[List] => previous'[c] = previous[c]
  BY <1>1, <1>2 DEF AlarmInv, AlarmTypes
<1>5. AlarmTypes'
  <2>1. time' \in [Alarm -> 0 .. Wrap - 1]  BY <1>1, <1>2, <1>3 DEF AlarmInv, AlarmTypes
  <2>2. RollsOver(time'[x]) \in BOOLEAN
    BY DEF RollsOver
  <2>3. rollover' \in [Alarm -> BOOLEAN]  BY <1>2, <2>2 DEF AlarmInv, AlarmTypes
  <2>4. due' \in [Alarm -> Int]  BY <1>1, <1>2 DEF AlarmInv, AlarmTypes
  <2>5. next' \in [Node -> Node] /\ previous' \in [Node -> Node]
    BY <1>1, <1>2 DEF AlarmInv, AlarmTypes
  <2> QED  BY <1>2, <2>1, <2>3, <2>4, <2>5 DEF AlarmInv, AlarmTypes
<1>6. Linked'
  <2>1. \A a \in Listed : /\ next[a] \in Listed /\ previous[a] \in Listed
                          /\ previous[next[a]] = a /\ next[previous[a]] = a
    BY DEF AlarmInv, Linked
  <2>2. Listed' = Listed \cup {x}  BY <1>2 DEF Listed
  <2>3. ASSUME NEW a \in Listed' PROVE /\ next'[a] \in Listed' /\ previous'[a] \in Listed'
                                       /\ previous'[next'[a]] = a /\ next'[previous'[a]] = a
    <3>1. CASE a = x
      <4>1. List \in Listed /\ List \in Listed' /\ x \in Listed'  BY <2>2 DEF Listed
      <4> QED  BY <1>1, <1>4, <2>2, <3>1, <4>1
    <3>2. CASE a = List  BY <1>1, <1>4, <2>1, <2>2, <3>2 DEF Listed
    <3>3. CASE a # x /\ a # List
      <4>1. a \in Listed /\ a \in Node /\ List \in Listed  BY <1>1, <2>2, <2>3, <3>3 DEF Listed
      <4>2. next'[a] = next[a] /\ next[a] # next[List] /\ next[a] # x
        BY <1>1, <1>4, <2>1, <3>3, <4>1
      <4>3. previous'[next'[a]] = a
        BY <1>1, <1>4, <2>1, <4>1, <4>2
      <4>4. CASE a = next[List]
        BY <1>1, <1>4, <2>2, <2>1, <3>3, <4>1, <4>2, <4>3, <4>4
      <4>5. CASE a # next[List]
        <5>1. previous'[a] = previous[a] /\ previous[a] # List /\ previous[a] # x
          BY <1>1, <1>4, <2>1, <3>3, <4>1, <4>5
        <5> QED  BY <1>1, <1>4, <2>1, <2>2, <4>1, <4>2, <4>3, <5>1
      <4> QED  BY <4>4, <4>5
    <3> QED  BY <3>1, <3>2, <3>3
  <2>4. ASSUME NEW a \in Alarm \ registered', next'[a] = a PROVE previous'[a] = a
    <3>1. a # x /\ a # List /\ a \in Node /\ a \notin registered
      BY <1>2, AlarmAssumption DEF Node
    <3>2. next[a] = a /\ previous[a] = a  BY <1>4, <2>4, <3>1 DEF AlarmInv, Linked
    <3>3. a # next[List]  BY <1>1, <3>1 DEF Listed
    <3> QED  BY <1>4, <3>1, <3>2, <3>3
  <2> QED  BY <2>3, <2>4 DEF Linked
<1>7. /\ Listed \in SUBSET Node /\ ClosedUnder(next, Listed)
      /\ \A c \in Listed \ {List} : next'[c] = next[c]
  BY <1>1, <1>4 DEF AlarmInv, Linked, ClosedUnder
<1>8. Whole'
  <2>1. \A a \in Listed : a \in Way(next, next[List]) => a \in Way(next', next[List])
    BY <1>1, <1>7, WayAsBefore
  <2>2. ASSUME NEW a, a \in Way(next', next[List]) PROVE a \in Way(next', x)
    <3> SUFFICES ASSUME NEW S \in SUBSET Node, x \in S, ClosedUnder(next', S) PROVE a \in S
      BY <2>2 DEF Way
    <3>1. next[List] \in S  BY <1>1, <1>4 DEF ClosedUnder
    <3> QED  BY <2>2, <3>1 DEF Way
  <2>3. x \in Way(next', x)  BY <1>1 DEF Way
  <2>4. \A a \in registered : a \in Way(next, next[List])  BY FromIsWay DEF AlarmInv, Whole
  <2>5. \A a \in registered' : a \in Way(next', x)  BY <1>2, <2>1, <2>2, <2>3, <2>4 DEF Listed
  <2>6. From(next[List])' = Way(next', x)  BY <1>4 DEF From, Closed, Way, ClosedUnder
  <2> QED  BY <2>5, <2>6 DEF Whole
<1>9. Walking'  BY <1>1, <1>2 DEF AlarmInv, Walking, Listed
<1>10. Ahead \subseteq Ahead'
  <2>1. Cursor' = Cursor /\ Cursor \in Listed  BY <1>2 DEF Cursor, AlarmInv, Walking
  <2>2. Way(next, Cursor) \subseteq Way(next', Cursor)  BY <1>7, <2>1, WayAsBefore
  <2>3. Ahead = Way(next, Cursor) /\ Ahead' = Way(next', Cursor)
    BY <2>1 DEF Ahead, From, Closed, Way, ClosedUnder
  <2> QED  BY <2>2, <2>3
<1>11. InTime'
  <2> SUFFICES ASSUME NEW a \in registered'
               PROVE  IF phase = "callback" /\ a = at THEN Calling(a)'
                      ELSE InFront(a)' /\ (a \notin Ahead' => Behind(a)')
    BY <1>2 DEF InTime
  <2>1. CASE a = x
    <3>1. due'[a] = delay + 1 /\ time'[a] = Word(nticks + (delay + 1))
          /\ rollover'[a] = (Word(nticks + (delay + 1)) < nticks) /\ nticks' = nticks
      BY <1>2, <1>3, <2>1
    <3>2. Behind(a)' /\ InFront(a)'  BY <1>1, <3>1, PutOff
    <3> QED  BY <1>1, <2>1, <3>2
  <2>2. CASE a # x
    <3>1. a \in registered /\ a \in Alarm  BY <1>2, <2>2 DEF AlarmInv, AlarmTypes
    <3>2. rollover'[a] = rollover[a] /\ time'[a] = time[a] /\ due'[a] = due[a]
      BY <1>2, <2>2, <3>1 DEF AlarmInv, AlarmTypes
    <3>3. IF phase = "callback" /\ a = at THEN Calling(a)
          ELSE InFront(a) /\ (a \notin Ahead => Behind(a))
      BY <3>1 DEF AlarmInv, InTime
    <3> QED  BY <1>2, <1>10, <3>2, <3>3 DEF Calling, InFront, Behind, Left, StillRollsOver
  <2> QED  BY <2>1, <2>2
<1> QED  BY <1>5, <1>6, <1>8, <1>9, <1>11 DEF AlarmInv

(* An alarm is taken out of the list.                                      *)
LEMMA RemovedIsPast ==
  ASSUME AlarmInv, NEW x \in registered, Remove(x), registered' = registered \ {x}
  PROVE  /\ PastOne(next, previous, next', Listed, x)
         /\ next' \in [Node -> Node] /\ previous' \in [Node -> Node]
         /\ next[x] # x /\ previous[x] # x
         /\ Linked' /\ Whole'
<1>1. /\ Listed \in SUBSET Node /\ List \in Listed /\ x \in Listed \ {List}
      /\ \A c \in Listed : /\ next[c] \in Listed /\ previous[c] \in Listed
                           /\ previous[next[c]] = c /\ next[previous[c]] = c
  BY AlarmAssumption DEF AlarmInv, AlarmTypes, Linked, Listed, Node
<1>2. /\ next \in [Node -> Node] /\ previous \in [Node -> Node]
      /\ next[x] \in Node /\ previous[x] \in Node /\ x \in Node
  BY <1>1 DEF AlarmInv, AlarmTypes
<1>3. \A c \in Node : next'[c] = IF c = x THEN x ELSE IF c = previous[x] THEN next[x] ELSE next[c]
  BY <1>2 DEF Remove
<1>4. \A c \in Node : previous'[c] = IF c = x THEN x ELSE IF c = next[x] THEN previous[x] ELSE previous[c]
  BY <1>2 DEF Remove
<1>5. next' \in [Node -> Node] /\ previous' \in [Node -> Node]
  BY <1>2 DEF Remove
<1>6. PastOne(next, previous, next', Listed, x)
  BY <1>1, <1>3 DEF PastOne
<1>7. next[x] # x /\ previous[x] # x
  <2> SUFFICES ASSUME next[x] = x PROVE FALSE
    BY <1>1
  <2> DEFINE R == Listed \ {x}
  <2>1. R \in SUBSET Node /\ \A c \in R : next[c] \in R
    BY <1>1
  <2>2. next[List] \in R  BY <1>1, <2>1
  <2> HIDE DEF R
  <2>3. Way(next, next[List]) \subseteq R  BY <2>1, <2>2, WayInside DEF ClosedUnder
  <2>4. x \in Way(next, next[List])  BY FromIsWay DEF AlarmInv, Whole
  <2>5. x \in R  BY <2>3, <2>4
  <2> QED  BY <2>5 DEF R
<1>8. Listed' = Listed \ {x}  BY <1>1 DEF Listed
<1>9. Linked'
  <2>1. ASSUME NEW c \in Listed' PROVE /\ next'[c] \in Listed' /\ previous'[c] \in Listed'
                                       /\ previous'[next'[c]] = c /\ next'[previous'[c]] = c
    <3>1. c \in Listed /\ c # x /\ c \in Node /\ next[c] \in Node /\ previous[c] \in Node
      BY <1>1, <1>8
    <3>2. next'[c] \in Listed' /\ previous'[next'[c]] = c
      <4>1. CASE c = previous[x]
        <5>1. next'[c] = next[x]  BY <1>3, <3>1, <4>1
        <5>2. previous'[next[x]] = previous[x]  BY <1>2, <1>4, <1>7
        <5> QED  BY <1>1, <1>7, <1>8, <4>1, <5>1, <5>2
      <4>2. CASE c # previous[x]
        <5>1. next'[c] = next[c] /\ next[c] # x /\ next[c] # next[x]
          BY <1>1, <1>3, <3>1, <4>2
        <5>2. previous'[next[c]] = previous[next[c]]  BY <1>4, <3>1, <5>1
        <5> QED  BY <1>1, <1>8, <3>1, <5>1, <5>2
      <4> QED  BY <4>1, <4>2
    <3>3. previous'[c] \in Listed' /\ next'[previous'[c]] = c
      <4>1. CASE c = next[x]
        <5>1. previous'[c] = previous[x]  BY <1>4, <3>1, <4>1
        <5>2. next'[previous[x]] = next[x]  BY <1>2, <1>3, <1>7
        <5> QED  BY <1>1, <1>7, <1>8, <4>1, <5>1, <5>2
      <4>2. CASE c # next[x]
        <5>1. previous'[c] = previous[c] /\ previous[c] # x /\ previous[c] # previous[x]
          BY <1>1, <1>4, <3>1, <4>2
        <5>2. next'[previous[c]] = next[previous[c]]  BY <1>3, <3>1, <5>1
        <5> QED  BY <1>1, <1>8, <3>1, <5>1, <5>2
      <4> QED  BY <4>1, <4>2
    <3> QED  BY <3>2, <3>3
  <2>2. ASSUME NEW c \in Alarm \ registered', next'[c] = c PROVE previous'[c] = c
    <3>1. c \in Node  BY DEF Node
    <3>2. CASE c = x  BY <1>4, <3>1, <3>2
    <3>3. CASE c # x
      <4>1. c \notin Listed  BY <3>3, AlarmAssumption DEF Listed
      <4>2. c # next[x] /\ c # previous[x]  BY <1>1, <4>1
      <4>3. next'[c] = next[c] /\ previous'[c] = previous[c]
        BY <1>3, <1>4, <3>1, <3>3, <4>2
      <4>4. c \in Alarm \ registered  BY <3>3
      <4> QED  BY <2>2, <4>3, <4>4 DEF AlarmInv, Linked
    <3> QED  BY <3>2, <3>3
  <2> QED  BY <2>1, <2>2 DEF Linked
<1>10. Whole'
  <2> SUFFICES ASSUME NEW c \in registered, c # x PROVE c \in From(next[List])'
    BY DEF Whole
  <2>1. c \in Way(next, next[List]) \ {x}  BY FromIsWay DEF AlarmInv, Whole
  <2>2. c \in Way(next', next'[List])  BY <1>6, <2>1, WholePastOne
  <2> QED  BY <2>2 DEF From, Closed, Way, ClosedUnder
<1> QED  BY <1>5, <1>6, <1>7, <1>9, <1>10

LEMMA StopKeeps ==
  ASSUME ~StopAny, AlarmInv, NEW x \in Alarm, AlarmStop(x)
  PROVE  AlarmInv'
<1>1. CASE x \in registered
  <2>1. /\ x # at /\ phase # "walk" /\ (phase = "idle" \/ x # following)
        /\ Remove(x) /\ registered' = registered \ {x}
        /\ UNCHANGED <<nticks, rate, time, rollover, phase, at, following, due, called>>
    BY DEF AlarmStop, AlarmInv, AlarmTypes, walk
  <2>2. /\ PastOne(next, previous, next', Listed, x) /\ Linked' /\ Whole'
        /\ next' \in [Node -> Node] /\ previous' \in [Node -> Node]
    BY <1>1, <2>1, RemovedIsPast
  <2>3. AlarmTypes'  BY <2>1, <2>2 DEF AlarmInv, AlarmTypes
  <2>4. x # following /\ x # List /\ Cursor \in Listed \ {x} /\ Cursor' = Cursor
    BY <1>1, <2>1, AlarmAssumption DEF AlarmInv, AlarmTypes, Walking, Listed, Cursor
  <2>5. Walking'  BY <2>1, <2>4 DEF AlarmInv, Walking, Listed
  <2>6. ASSUME NEW a \in Ahead, a # x PROVE a \in Ahead'
    <3>1. a \in Way(next, Cursor) \ {x}  BY <2>6, FromIsWay DEF Ahead
    <3>2. a \in Way(next', Cursor)  BY <2>2, <2>4, <3>1, WayPastOne
    <3> QED  BY <2>4, <3>2 DEF Ahead, From, Closed, Way, ClosedUnder
  <2>7. InTime'
    BY <2>1, <2>6 DEF AlarmInv, InTime, Calling, InFront, Behind, Left, StillRollsOver
  <2> QED  BY <2>2, <2>3, <2>5, <2>7 DEF AlarmInv
<1>2. CASE x \notin registered
  <2>1. x \in Node /\ next[x] = x /\ previous[x] = x
    BY <1>2 DEF AlarmStop, Node, AlarmInv, Linked
  <2>2. next' = next /\ previous' = previous
    BY <2>1 DEF AlarmStop, Remove, AlarmInv, AlarmTypes
  <2>3. registered' = registered
    BY <1>2 DEF AlarmStop
  <2>4. UNCHANGED alarmVars  BY <2>2, <2>3 DEF AlarmStop, alarmVars, links, walk
  <2> QED  BY <2>4, InitKeeps
<1> QED  BY <1>1, <1>2

LEMMA CallNoMoreKeeps == ASSUME AlarmInv, CallNoMore PROVE AlarmInv'
<1>1. /\ phase = "callback" /\ at \in registered /\ following # at
      /\ following \in Listed /\ following \in Node /\ Remove(at) /\ registered' = registered \ {at}
      /\ phase' = "walk" /\ at' = following /\ following' = List /\ called' = None
      /\ UNCHANGED <<nticks, rate, time, rollover, due>>
  BY DEF CallNoMore, GoOn, AlarmInv, AlarmTypes, Walking, Listed, Node
<1>2. /\ PastOne(next, previous, next', Listed, at) /\ Linked' /\ Whole'
      /\ next' \in [Node -> Node] /\ previous' \in [Node -> Node]
  BY <1>1, RemovedIsPast
<1>3. AlarmTypes'
  <2>1. List \in Node  BY DEF Node
  <2> QED  BY <1>1, <1>2, <2>1 DEF AlarmInv, AlarmTypes, None
<1>4. Walking'  BY <1>1 DEF Walking, Listed
<1>5. ASSUME NEW a \in Ahead, a # at PROVE a \in Ahead'
  <2>1. a \in Way(next, following) \ {at}  BY <1>1, <1>5, FromIsWay DEF Ahead, Cursor
  <2>2. a \in Way(next', following)  BY <1>1, <1>2, <2>1, WayPastOne
  <2> QED  BY <1>1, <2>2 DEF Ahead, Cursor, From, Closed, Way, ClosedUnder
<1>6. InTime'
  BY <1>1, <1>5 DEF AlarmInv, InTime, InFront, Behind, Left, StillRollsOver
<1> QED  BY <1>2, <1>3, <1>4, <1>6 DEF AlarmInv

LEMMA AlarmStepKeeps ==
  ASSUME ~StopAny, \A d \in Delays : d < Wrap - 1, AlarmInv, [AlarmNext]_alarmVars
  PROVE  AlarmInv'
<1>1. ASSUME NEW x \in Alarm, NEW d \in Delays, AlarmStart(x, d) PROVE AlarmInv'
  <2>1. d \in 0 .. Wrap - 2  BY AlarmAssumption
  <2> QED  BY <1>1, <2>1, StartKeeps
<1>2. ASSUME NEW x \in Alarm, AlarmStop(x) PROVE AlarmInv'  BY <1>2, StopKeeps
<1>3. ASSUME NEW p \in Periods, CallAgain(p) PROVE AlarmInv'  BY <1>3, CallAgainKeeps
<1> QED
  BY <1>1, <1>2, <1>3, InitKeeps, TickKeeps, VisitKeeps, CallNoMoreKeeps, TickEndsKeeps
     DEF AlarmNext

LEMMA InvAgrees == ASSUME AlarmInv PROVE AlarmsAgree
<1>1. ListIsRegistered
  <2>1. Listed \in SUBSET Node /\ ClosedUnder(next, Listed) /\ next[List] \in Listed
    BY DEF AlarmInv, AlarmTypes, Linked, Listed, Node, ClosedUnder
  <2>2. From(next[List]) \subseteq Listed  BY <2>1, WayInside, FromIsWay
  <2>3. List \in From(next[List])
    <3> DEFINE y == previous[List]
    <3>1. y \in Listed /\ next[y] = List  BY DEF AlarmInv, Linked, Listed
    <3> HIDE DEF y
    <3>2. CASE y = List
      <4>1. next[List] = List /\ List \in Node  BY <3>1, <3>2 DEF Node
      <4> QED  BY <4>1 DEF From
    <3>3. CASE y # List
      <4>1. y \in From(next[List])  BY <3>1, <3>3 DEF AlarmInv, Whole, Listed
      <4> SUFFICES ASSUME NEW S \in SUBSET Node, next[List] \in S, Closed(S) PROVE List \in S
        BY DEF From, Node
      <4>2. y \in S  BY <4>1 DEF From
      <4> QED  BY <3>1, <3>3, <4>2 DEF Closed
    <3> QED  BY <3>2, <3>3
  <2>4. From(next[List]) = Listed  BY <2>2, <2>3 DEF AlarmInv, Whole, Listed
  <2>5. phase = "walk" /\ at # List => at \in registered
    BY DEF AlarmInv, Walking, Listed
  <2>6. \A a \in Listed : previous[next[a]] = a  BY DEF AlarmInv, Linked
  <2> QED  BY <2>4, <2>5, <2>6 DEF ListIsRegistered, Listed
<1>2. OnTime
  <2>1. called # None => due[called] = 0
    BY DEF AlarmInv, Walking, InTime, Calling, Listed, None
  <2>2. ASSUME phase = "idle", NEW a \in registered PROVE due[a] > 0
    <3>1. a # List  BY AlarmAssumption DEF AlarmInv, AlarmTypes
    <3>2. Ahead = {List}  BY <2>2, WayEnds, FromIsWay DEF Ahead, Cursor, AlarmInv, Walking
    <3>3. Behind(a)  BY <2>2, <3>1, <3>2 DEF AlarmInv, InTime
    <3> QED  BY <3>3, AlarmAssumption DEF Behind
  <2> QED  BY <2>1, <2>2 DEF OnTime
<1> QED  BY <1>1, <1>2 DEF AlarmsAgree, AlarmInv

(* Every alarm is called in its tick, neither before nor after, and the    *)
(* list holds those that should be called, over every wrap of the clock    *)
(* and whatever callbacks start and stop (alt_tick.c, alt_alarm_start.c,   *)
(* alt_llist.h): for any number of alarms and a clock of any width, if the *)
(* longest delay is not asked for and no callback stops the alarm behind   *)
(* its own.                                                                *)
THEOREM AlarmsComeInTime ==
  ASSUME ~StopAny, \A d \in Delays : d < Wrap - 1
  PROVE  AlarmSpec => []AlarmsAgree
<1>1. AlarmInv /\ [AlarmNext]_alarmVars => AlarmInv'  BY AlarmStepKeeps
<1>2. AlarmInv => AlarmsAgree  BY InvAgrees
<1> QED  BY AlarmStarts, <1>1, <1>2, PTL DEF AlarmSpec
-----------------------------------------------------------------------------
(* Interrupts.                                                             *)

Labels ==
  {"idle", "locked", "leave", "handler", "context", "change", "write", "ienable", "restore",
   "first", "isr", "body", "serve", "end", "again"}

\* The program, and a dispatcher, with its locals.
Frames ==
  [pc : Labels, home : {"idle", "leave"}, then : {"idle", "restore", "serve"}, irq : Int,
   isr : Isrs \cup {NoIsr}, on : BOOLEAN, status : BOOLEAN, outer : BOOLEAN, locked : BOOLEAN,
   read : SUBSET Irqs, old : SUBSET Irqs, i : 0 .. NIrq]

IrqTypes ==
  /\ pie \in BOOLEAN /\ ienable \subseteq Irqs /\ lines \subseteq Irqs
  /\ alt_irq_active \subseteq Irqs /\ alt_priority_mask \subseteq Irqs
  /\ handler \in [Irqs -> Isrs \cup {NoIsr}] /\ context \in [Irqs -> Isrs \cup {NoIsr}]
  /\ stack \in Seq(Frames) /\ stack # <<>>

InChange(f) == f.pc \in {"change", "write", "ienable"}
Registering(f) ==
  f.pc \in {"handler", "context", "restore"} \/ (InChange(f) /\ f.then = "restore")
HasIsr(irq, isrs) == irq \in Irqs /\ isrs[irq] # NoIsr

(* The program, in a call or between two: it comes back to where it was    *)
(* with the interrupts on or off as they were.                             *)
IsProgram(f, isrs) ==
  /\ f.pc \in {"idle", "locked", "leave", "handler", "context", "change", "write", "ienable",
              "restore"}
  /\ f.pc \in {"idle", "locked", "leave"} => f.home = "idle" /\ f.then = "idle"
  /\ f.pc \in {"locked", "leave"} => f.locked
  /\ InChange(f) => f.then \in {"idle", "restore"}
  /\ InChange(f) /\ f.then = "idle" => f.home = "idle" /\ HasIsr(f.irq, isrs)
  /\ f.pc \in {"write", "ienable"} => (f.status <=> f.then = "idle")
  /\ Registering(f) =>
       /\ f.irq \in Irqs /\ (f.outer <=> f.home = "idle") /\ (f.home = "leave" => f.locked)
       /\ f.pc # "handler" => isrs[f.irq] = f.isr
       /\ f.pc \notin {"handler", "context"} => (f.on <=> f.isr # NoIsr)

(* A dispatcher came in with interrupts on; where it calls a routine, the  *)
(* line is one of the table.                                               *)
IsDispatcher(f, isrs) ==
  /\ f.pc \in {"first", "isr", "body", "change", "write", "ienable", "serve", "end", "again"}
  /\ f.outer
  /\ f.pc \notin {"first", "again"} => f.i \in Irqs
  /\ InChange(f) => f.then = "serve" /\ f.irq \in IsrChanges /\ HasIsr(f.irq, isrs)
  /\ f.pc \in {"write", "ienable"} => (f.status <=> f.i \in Nesting)

IsFrame(k, f, isrs) == IF k = 1 THEN IsProgram(f, isrs) ELSE IsDispatcher(f, isrs)

\* Where an interrupt may come.
MayEnter(k, f) ==
  IF k = 1 THEN f.pc = "idle" \/ (f.pc = "change" /\ f.then = "idle")
  ELSE f.i \in Nesting /\ f.pc \in {"body", "change", "serve", "end"}

StackIsRight ==
  /\ \A k \in 1 .. Len(stack) : IsFrame(k, stack[k], handler)
  /\ \A k \in 1 .. Len(stack) - 1 : MayEnter(k, stack[k])

(* The table's two columns agree and an active line has a routine, but for *)
(* the line a registration is about.                                       *)
TableIsRight ==
  \A j \in Irqs :
    /\ context[j] = handler[j] \/ (stack[1].pc = "context" /\ j = stack[1].irq)
    /\ j \in alt_irq_active =>
         \/ handler[j] # NoIsr
         \/ /\ Registering(stack[1]) /\ stack[1].pc \in {"context", "change", "write"}
            /\ j = stack[1].irq

(* What the code on top has read, looked at or changed is still so.        *)
IsCurrent(f) ==
  /\ f.pc = "write" => f.read = alt_irq_active
  /\ f.pc # "ienable" => ienable \subseteq alt_irq_active
  /\ f.pc = "first" => Pending # {}
  /\ f.pc = "isr" => f.i \in alt_irq_active
  /\ Registering(f) /\ f.pc \in {"ienable", "restore"} => (f.irq \in alt_irq_active <=> f.on)

IrqInv ==
  /\ IrqTypes /\ StackIsRight /\ TableIsRight
  /\ (pie <=> MayEnter(Len(stack), Top)) /\ IsCurrent(Top)

(* The masks nest.  A routine that lets itself be interrupted masks all    *)
(* lines from its own on, and remembers the mask of the one below it.      *)
Masking(f) ==
  f.i \in Nesting /\ f.pc \in {"body", "change", "write", "ienable", "serve", "end"}
LinesAbove(k) == IF k = 1 THEN Irqs ELSE HigherThan(stack[k].i)

MasksNest ==
  /\ \A k \in 2 .. Len(stack) : Masking(stack[k]) => stack[k].old = LinesAbove(k - 1)
  /\ \A k \in 2 .. Len(stack), l \in 2 .. Len(stack) :
       k < l /\ stack[l].pc \notin {"first", "again"} => stack[l].i < stack[k].i
  /\ alt_priority_mask =
       LinesAbove(IF Len(stack) = 1 \/ Masking(Top) THEN Len(stack) ELSE Len(stack) - 1)
  /\ Top.pc # "ienable" => ienable = alt_irq_active \cap alt_priority_mask
-----------------------------------------------------------------------------
(* The stack: what is on top, and what a step, an entry and a return leave *)
(* below.                                                                  *)
LEMMA StackTop ==
  ASSUME IrqTypes
  PROVE  /\ Len(stack) \in Nat \ {0} /\ Top \in Frames
         /\ \A k \in 1 .. Len(stack) : stack[k] \in Frames
         /\ Len(stack) # 1 => Len(stack) >= 2 /\ 1 \in 1 .. Len(stack) - 1
  <1>1. Len(stack) \in Nat /\ Len(stack) # 0
    BY LenProperties, EmptySeq, SMT DEF IrqTypes
  <1>2. \A k \in 1 .. Len(stack) : stack[k] \in Frames
    BY ElementOfSeq DEF IrqTypes
  <1>3. Len(stack) # 1 => Len(stack) >= 2 /\ 1 \in 1 .. Len(stack) - 1
    <2>1. \A n \in Nat : n # 0 /\ n # 1 => n >= 2 /\ 1 \in 1 .. n - 1
      OBVIOUS
    <2> QED
      BY <1>1, <2>1
  <1> QED
    BY <1>2, <1>3 DEF Top

LEMMA StackStep ==
  ASSUME IrqTypes, NEW f, Goto(f)
  PROVE  /\ stack' \in Seq(Frames \cup {f}) /\ stack' # <<>> /\ Len(stack') = Len(stack)
         /\ stack'[Len(stack)] = f /\ Top' = f
         /\ \A k \in 1 .. Len(stack) - 1 : stack'[k] = stack[k]
         /\ Len(stack) = 1 => stack'[1] = f
         /\ Len(stack) # 1 => stack'[1] = stack[1]
  <1>1. Len(stack) \in Nat \ {0}
    BY StackTop
  <1>2. Len(stack) \in 1 .. Len(stack)
    BY <1>1
  <1>3. stack \in Seq(Frames \cup {f})
    BY SeqMonotonic DEF IrqTypes
  <1>4. /\ stack' \in Seq(Frames \cup {f}) /\ Len(stack') = Len(stack)
        /\ \A k \in 1 .. Len(stack) : stack'[k] = IF k = Len(stack) THEN f ELSE stack[k]
    BY <1>2, <1>3 DEF Goto
  <1>5. stack' # <<>>
    BY <1>1, <1>4, EmptySeq
  <1> QED
    BY <1>4, <1>5 DEF Top

LEMMA StackPush ==
  ASSUME IrqTypes, NEW f \in Frames, stack' = Append(stack, f)
  PROVE  /\ stack' \in Seq(Frames) /\ stack' # <<>> /\ Len(stack') = Len(stack) + 1
         /\ stack'[Len(stack) + 1] = f /\ Top' = f
         /\ \A k \in 1 .. Len(stack) : stack'[k] = stack[k]
  <1>1. /\ stack' \in Seq(Frames) /\ stack' # <<>> /\ Len(stack') = Len(stack) + 1
        /\ \A k \in 1 .. Len(stack) : stack'[k] = stack[k]
        /\ stack'[Len(stack) + 1] = f
    BY AppendProperties DEF IrqTypes
  <1> QED
    BY <1>1 DEF Top

LEMMA StackPop ==
  ASSUME IrqTypes, Len(stack) >= 2, stack' = SubSeq(stack, 1, Len(stack) - 1)
  PROVE  /\ stack' \in Seq(Frames) /\ stack' # <<>> /\ Len(stack') = Len(stack) - 1
         /\ Top' = stack[Len(stack) - 1]
         /\ \A k \in 1 .. Len(stack) - 1 : stack'[k] = stack[k]
  <1>1. Len(stack) \in Nat \ {0}
    BY StackTop
  <1>2. \A k \in 1 .. Len(stack) - 1 : stack[k] \in Frames
    BY <1>1, StackTop
  <1>3. /\ stack' \in Seq(Frames) /\ Len(stack') = Len(stack) - 1
        /\ \A k \in 1 .. Len(stack) - 1 : stack'[k] = stack[k]
    <2> DEFINE m == Len(stack) - 1
    <2>1. m \in Int /\ m >= 1 /\ m <= Len(stack)
      BY <1>1
    <2>2. SubSeq(stack, 1, m) \in Seq(Frames) /\ Len(SubSeq(stack, 1, m)) = m
          /\ \A k \in 1 .. m : SubSeq(stack, 1, m)[k] = stack[k]
      <3>1. \A k \in 1 .. m : stack[k] \in Frames
        BY <1>2
      <3> HIDE DEF m
      <3>2. 1 \in Int /\ m \in Int
        BY <2>1
      <3>3. /\ SubSeq(stack, 1, m) \in Seq(Frames)
            /\ Len(SubSeq(stack, 1, m)) = IF 1 <= m THEN m - 1 + 1 ELSE 0
            /\ \A k \in 1 .. m - 1 + 1 : SubSeq(stack, 1, m)[k] = stack[1 + k - 1]
        BY <3>1, <3>2, SubSeqProperties
      <3> QED
        BY <2>1, <3>3
    <2> QED
      BY <2>2
  <1>4. stack' # <<>>
    <2>1. Len(stack') # 0
      BY <1>1, <1>3
    <2> QED
      BY <2>1, EmptySeq
  <1> QED
    BY <1>3, <1>4 DEF Top

LEMMA LocalsAreOfAFrame ==
  ASSUME LinesAreReal
  PROVE  Locals \in Frames
  <1>1. {} \in SUBSET Irqs /\ 0 \in 0 .. NIrq
    BY DEF LinesAreReal
  <1> QED
    BY <1>1 DEF Locals, Frames, Labels

\* Which code is on top, by what it is about to do.
LEMMA OnTop ==
  ASSUME IrqInv
  PROVE  /\ IsFrame(Len(stack), Top, handler)
         /\ Top.pc \in {"idle", "locked", "leave", "handler", "context", "restore"} =>
              Len(stack) = 1 /\ Top = stack[1] /\ IsProgram(Top, handler)
         /\ Top.pc \in {"first", "isr", "body", "serve", "end", "again"} =>
              Len(stack) # 1 /\ Len(stack) >= 2 /\ IsDispatcher(Top, handler)
  <1>1. Len(stack) \in Nat \ {0}
    BY StackTop DEF IrqInv
  <1>2. IsFrame(Len(stack), Top, handler)
    BY <1>1 DEF IrqInv, StackIsRight, Top
  <1>3. CASE Len(stack) = 1
    BY <1>2, <1>3 DEF IsFrame, IsProgram, Top
  <1>4. CASE Len(stack) # 1
    <2>1. IsDispatcher(Top, handler)
      BY <1>2, <1>4 DEF IsFrame
    <2>2. Top.pc \notin {"idle", "locked", "leave", "handler", "context", "restore"}
      BY <2>1 DEF IsDispatcher
    <2>3. Len(stack) >= 2
      BY <1>4, StackTop DEF IrqInv
    <2> QED
      BY <1>2, <1>4, <2>1, <2>2, <2>3
  <1> QED
    BY <1>3, <1>4

\* The program is below a dispatcher only where an interrupt may come.
LEMMA Below ==
  ASSUME IrqInv, Len(stack) # 1
  PROVE  IsProgram(stack[1], handler) /\ MayEnter(1, stack[1])
  <1>1. 1 \in 1 .. Len(stack) - 1 /\ Len(stack) \in Nat
    BY StackTop DEF IrqInv
  <1>2. IsFrame(1, stack[1], handler) /\ MayEnter(1, stack[1])
    BY <1>1 DEF IrqInv, StackIsRight
  <1> QED
    BY <1>2 DEF IsFrame

\* A step of the code on top leaves what is below as it was.
LEMMA OnlyTopMoves ==
  ASSUME IrqInv, NEW f \in Frames, Goto(f), IsFrame(Len(stack), f, handler'),
         handler' = handler \/ Len(stack) = 1
  PROVE  StackIsRight'
  <1>1. /\ Len(stack) \in Nat \ {0} /\ Len(stack') = Len(stack) /\ stack'[Len(stack)] = f
        /\ \A k \in 1 .. Len(stack) - 1 : stack'[k] = stack[k]
    BY StackTop, StackStep DEF IrqInv
  <1>2. ASSUME NEW k \in 1 .. Len(stack)'
        PROVE  IsFrame(k, stack'[k], handler')
    <2>1. CASE k = Len(stack)
      BY <1>1, <2>1
    <2>2. CASE k # Len(stack)
      <3>1. k \in 1 .. Len(stack) - 1 /\ handler' = handler
        BY <1>1, <1>2, <2>2
      <3>2. IsFrame(k, stack[k], handler)
        BY <3>1 DEF IrqInv, StackIsRight
      <3> QED
        BY <1>1, <3>1, <3>2
    <2> QED
      BY <2>1, <2>2
  <1>3. ASSUME NEW k \in 1 .. Len(stack)' - 1
        PROVE  MayEnter(k, stack'[k])
    BY <1>1 DEF IrqInv, StackIsRight
  <1> QED
    BY <1>2, <1>3 DEF StackIsRight

LEMMA RegisterKeepsInv ==
  ASSUME LinesAreReal, Asked \subseteq Nat, IrqInv,
         NEW irq \in Asked, NEW isr \in Isrs \cup {NoIsr}, RegisterIsr(irq, isr)
  PROVE  IrqInv'
  <1> DEFINE f == [Top EXCEPT !.pc = "handler", !.irq = irq, !.isr = isr, !.outer = pie,
                              !.home = IF At("locked") THEN "leave" ELSE "idle"]
  <1>1. /\ Len(stack) = 1 /\ Top = stack[1] /\ IsProgram(Top, handler) /\ Top \in Frames
        /\ Top.pc \in {"idle", "locked"} /\ irq \in Irqs /\ (pie <=> Top.pc = "idle")
    <2>1. Top.pc \in {"idle", "locked"} /\ irq \in Irqs
      BY DEF RegisterIsr, InRange, Irqs, LinesAreReal
    <2>2. Len(stack) = 1 /\ Top = stack[1] /\ IsProgram(Top, handler) /\ Top \in Frames
      BY <2>1, OnTop, StackTop DEF IrqInv
    <2> QED
      BY <2>1, <2>2 DEF IrqInv, MayEnter
  <1>2. f \in Frames
    BY <1>1 DEF Frames, Labels, Irqs, LinesAreReal, IrqInv, IrqTypes, At
  <1>3. /\ f.pc = "handler" /\ f.irq = irq /\ f.outer = pie /\ f.locked = Top.locked
        /\ f.home = IF Top.pc = "locked" THEN "leave" ELSE "idle"
    BY <1>1 DEF Frames, At
  <1>4. Goto(f) /\ UNCHANGED <<ienable, masks, table, lines>> /\ pie' = FALSE
    BY DEF RegisterIsr, DisableAll
  <1> HIDE DEF f
  <1>5. IsFrame(Len(stack), f, handler')
    BY <1>1, <1>3 DEF IsFrame, IsProgram, InChange
  <1>6. StackIsRight'
    BY <1>1, <1>2, <1>4, <1>5, OnlyTopMoves
  <1>7. /\ Len(stack') = Len(stack) /\ Top' = f /\ (Len(stack) = 1 => stack'[1] = f)
        /\ (Len(stack) # 1 => stack'[1] = stack[1]) /\ stack' \in Seq(Frames) /\ stack' # <<>>
    <2>1. Frames \cup {f} = Frames
      BY <1>2
    <2> QED
      BY <1>4, <2>1, StackStep DEF IrqInv
  <1>8. IrqTypes'
    BY <1>4, <1>7 DEF IrqInv, IrqTypes, masks, table
  <1>9. TableIsRight'
    BY <1>1, <1>4 DEF TableIsRight, IrqInv, masks, table
  <1>10. IsCurrent(Top)' /\ (pie <=> MayEnter(Len(stack), Top))'
    BY <1>1, <1>3, <1>4, <1>7 DEF IsCurrent, MayEnter, IrqInv, masks
  <1> QED
    BY <1>6, <1>8, <1>9, <1>10 DEF IrqInv

LEMMA SetHandlerKeepsInv ==
  ASSUME LinesAreReal, IrqInv, SetHandler
  PROVE  IrqInv'
  <1> DEFINE f == [Top EXCEPT !.pc = "context"]
  <1>1. /\ Len(stack) = 1 /\ Top = stack[1] /\ IsProgram(Top, handler) /\ Top \in Frames
        /\ Top.pc = "handler" /\ ~pie /\ Top.irq \in Irqs
    <2>1. Top.pc = "handler"
      BY DEF SetHandler, At
    <2>2. Len(stack) = 1 /\ Top = stack[1] /\ IsProgram(Top, handler) /\ Top \in Frames
      BY <2>1, OnTop, StackTop DEF IrqInv
    <2> QED
      BY <2>1, <2>2 DEF IrqInv, MayEnter, IsProgram, Registering
  <1>2. f \in Frames
    BY <1>1 DEF Frames, Labels
  <1>3. /\ f.pc = "context" /\ f.irq = Top.irq /\ f.isr = Top.isr /\ f.outer = Top.outer
        /\ f.locked = Top.locked /\ f.home = Top.home
    BY <1>1 DEF Frames
  <1>4. Goto(f) /\ UNCHANGED <<cpu, masks, context, lines>>
    BY DEF SetHandler
  <1>5. handler' \in [Irqs -> Isrs \cup {NoIsr}] /\ handler'[Top.irq] = Top.isr
         /\ \A j \in Irqs : j # Top.irq => handler'[j] = handler[j]
    BY <1>1 DEF SetHandler, With, IrqInv, IrqTypes, Frames
  <1> HIDE DEF f
  <1>6. IsFrame(Len(stack), f, handler')
    BY <1>1, <1>3, <1>5 DEF IsFrame, IsProgram, InChange, Registering
  <1>7. StackIsRight'
    BY <1>1, <1>2, <1>4, <1>6, OnlyTopMoves
  <1>8. /\ Len(stack') = Len(stack) /\ Top' = f /\ (Len(stack) = 1 => stack'[1] = f)
        /\ (Len(stack) # 1 => stack'[1] = stack[1]) /\ stack' \in Seq(Frames) /\ stack' # <<>>
    <2>1. Frames \cup {f} = Frames
      BY <1>2
    <2> QED
      BY <1>4, <2>1, StackStep DEF IrqInv
  <1>9. IrqTypes'
    BY <1>4, <1>5, <1>8 DEF IrqInv, IrqTypes, cpu, masks
  <1>10. TableIsRight'
    BY <1>1, <1>3, <1>4, <1>5, <1>8 DEF TableIsRight, IrqInv, Registering, masks
  <1>11. IsCurrent(Top)' /\ (pie <=> MayEnter(Len(stack), Top))'
    BY <1>1, <1>3, <1>4, <1>8 DEF IsCurrent, MayEnter, IrqInv, cpu, masks
  <1> QED
    BY <1>7, <1>9, <1>10, <1>11 DEF IrqInv

LEMMA SetContextKeepsInv ==
  ASSUME LinesAreReal, IrqInv, SetContext
  PROVE  IrqInv'
  <1> DEFINE f == [Top EXCEPT !.pc = "change", !.on = Top.isr # NoIsr, !.then = "restore"]
  <1>1. /\ Len(stack) = 1 /\ Top = stack[1] /\ IsProgram(Top, handler) /\ Top \in Frames
        /\ Top.pc = "context" /\ ~pie /\ Top.irq \in Irqs
    <2>1. Top.pc = "context"
      BY DEF SetContext, At
    <2>2. Len(stack) = 1 /\ Top = stack[1] /\ IsProgram(Top, handler) /\ Top \in Frames
      BY <2>1, OnTop, StackTop DEF IrqInv
    <2> QED
      BY <2>1, <2>2 DEF IrqInv, MayEnter, IsProgram, Registering
  <1>2. f \in Frames
    BY <1>1 DEF Frames, Labels
  <1>3. /\ f.pc = "change" /\ f.then = "restore" /\ f.irq = Top.irq /\ f.isr = Top.isr
        /\ (f.on <=> Top.isr # NoIsr) /\ f.outer = Top.outer
        /\ f.locked = Top.locked /\ f.home = Top.home
    BY <1>1 DEF Frames
  <1>4. Goto(f) /\ UNCHANGED <<cpu, masks, handler, lines>>
    BY DEF SetContext
  <1>5. context' \in [Irqs -> Isrs \cup {NoIsr}] /\ context'[Top.irq] = Top.isr
         /\ \A j \in Irqs : j # Top.irq => context'[j] = context[j]
    BY <1>1 DEF SetContext, With, IrqInv, IrqTypes, IsProgram, Registering
  <1> HIDE DEF f
  <1>6. IsFrame(Len(stack), f, handler')
    BY <1>1, <1>3, <1>4 DEF IsFrame, IsProgram, Registering
  <1>7. StackIsRight'
    BY <1>2, <1>4, <1>6, OnlyTopMoves
  <1>8. /\ Len(stack') = Len(stack) /\ Top' = f /\ (Len(stack) = 1 => stack'[1] = f)
        /\ (Len(stack) # 1 => stack'[1] = stack[1]) /\ stack' \in Seq(Frames) /\ stack' # <<>>
    <2>1. Frames \cup {f} = Frames
      BY <1>2
    <2> QED
      BY <1>4, <2>1, StackStep DEF IrqInv
  <1>9. IrqTypes'
    BY <1>4, <1>5, <1>8 DEF IrqInv, IrqTypes, cpu, masks
  <1>10. TableIsRight'
    BY <1>1, <1>3, <1>4, <1>5, <1>8 DEF TableIsRight, IsProgram, IrqInv, Registering,
       InChange, masks
  <1>11. IsCurrent(Top)' /\ (pie <=> MayEnter(Len(stack), Top))'
    BY <1>1, <1>3, <1>4, <1>8 DEF IsCurrent, MayEnter, IrqInv, cpu, masks
  <1> QED
    BY <1>7, <1>9, <1>10, <1>11 DEF IrqInv

LEMMA RestoreKeepsInv ==
  ASSUME LinesAreReal, IrqInv, Restore
  PROVE  IrqInv'
  <1> DEFINE f == [Locals EXCEPT !.pc = Top.home, !.locked = Top.locked]
  <1>1. /\ Len(stack) = 1 /\ Top = stack[1] /\ IsProgram(Top, handler) /\ Top \in Frames
        /\ Top.pc = "restore" /\ ~pie
    <2>1. Top.pc = "restore"
      BY DEF Restore, At
    <2>2. Len(stack) = 1 /\ Top = stack[1] /\ IsProgram(Top, handler) /\ Top \in Frames
      BY <2>1, OnTop, StackTop DEF IrqInv
    <2> QED
      BY <2>1, <2>2 DEF IrqInv, MayEnter
  <1>2. f \in Frames
    BY <1>1, LocalsAreOfAFrame DEF Frames, Labels
  <1>3. /\ f.pc = Top.home /\ f.then = "idle" /\ f.locked = Top.locked /\ f.home = "idle"
    BY <1>1 DEF Frames, Locals
  <1>4. Goto(f) /\ pie' = Top.outer /\ UNCHANGED <<ienable, masks, table, lines>>
    BY DEF Restore, EnableAll
  <1> HIDE DEF f
  <1>5. IsFrame(Len(stack), f, handler')
    BY <1>1, <1>3 DEF IsFrame, IsProgram, InChange, Registering, Frames
  <1>6. StackIsRight'
    BY <1>1, <1>2, <1>4, <1>5, OnlyTopMoves
  <1>7. /\ Len(stack') = Len(stack) /\ Top' = f /\ (Len(stack) = 1 => stack'[1] = f)
        /\ (Len(stack) # 1 => stack'[1] = stack[1]) /\ stack' \in Seq(Frames) /\ stack' # <<>>
    <2>1. Frames \cup {f} = Frames
      BY <1>2
    <2> QED
      BY <1>4, <2>1, StackStep DEF IrqInv
  <1>8. IrqTypes'
    BY <1>1, <1>4, <1>7 DEF Frames, IrqInv, IrqTypes, masks, table
  <1>9. TableIsRight'
    BY <1>1, <1>4 DEF TableIsRight, IrqInv, masks, table
  <1>10. IsCurrent(Top)' /\ (pie <=> MayEnter(Len(stack), Top))'
    BY <1>1, <1>3, <1>4, <1>7 DEF IsCurrent, MayEnter, IsProgram, Frames, IrqInv, Registering,
       masks
  <1> QED
    BY <1>6, <1>8, <1>9, <1>10 DEF IrqInv

LEMMA ReadActiveKeepsInv ==
  ASSUME LinesAreReal, IrqInv, ReadActive
  PROVE  IrqInv'
  <1> DEFINE f == [Top EXCEPT !.pc = "write", !.status = pie, !.read = alt_irq_active]
  <1>1. /\ IsFrame(Len(stack), Top, handler) /\ Top \in Frames /\ Len(stack) \in Nat \ {0}
        /\ Top.pc = "change" /\ (pie <=> MayEnter(Len(stack), Top)) /\ IsCurrent(Top)
        /\ (Len(stack) = 1 => Top = stack[1])
    BY OnTop, StackTop DEF IrqInv, ReadActive, At, Top
  <1>2. f \in Frames
    BY <1>1 DEF Frames, Labels, IrqInv, IrqTypes
  <1>3. /\ f.pc = "write" /\ f.status = pie /\ f.read = alt_irq_active
        /\ f.irq = Top.irq /\ f.isr = Top.isr /\ f.outer = Top.outer /\ f.on = Top.on
        /\ f.locked = Top.locked /\ f.home = Top.home /\ f.then = Top.then /\ f.i = Top.i
    BY <1>1 DEF Frames
  <1>4. Goto(f) /\ pie' = FALSE /\ UNCHANGED <<ienable, masks, table, lines>>
    BY DEF ReadActive, DisableAll
  <1> HIDE DEF f
  <1>5. IsFrame(Len(stack), f, handler')
    BY <1>1, <1>3, <1>4 DEF IsFrame, IsProgram, IsDispatcher, InChange, Registering, MayEnter,
       table
  <1>6. StackIsRight'
    BY <1>2, <1>4, <1>5, OnlyTopMoves DEF table
  <1>7. /\ Len(stack') = Len(stack) /\ Top' = f /\ (Len(stack) = 1 => stack'[1] = f)
        /\ (Len(stack) # 1 => stack'[1] = stack[1]) /\ stack' \in Seq(Frames) /\ stack' # <<>>
    <2>1. Frames \cup {f} = Frames
      BY <1>2
    <2> QED
      BY <1>4, <2>1, StackStep DEF IrqInv
  <1>8. IrqTypes'
    BY <1>4, <1>7 DEF IrqInv, IrqTypes, masks, table
  <1>9. TableIsRight'
    BY <1>1, <1>3, <1>4, <1>7 DEF TableIsRight, IrqInv, Registering, InChange, masks, table
  <1>10. IsCurrent(Top)' /\ (pie <=> MayEnter(Len(stack), Top))'
    BY <1>1, <1>3, <1>4, <1>7 DEF IsCurrent, MayEnter, masks
  <1> QED
    BY <1>6, <1>8, <1>9, <1>10 DEF IrqInv

LEMMA WriteActiveKeepsInv ==
  ASSUME LinesAreReal, IrqInv, WriteActive
  PROVE  IrqInv'
  <1> DEFINE f == [Top EXCEPT !.pc = "ienable", !.read = {}]
  <1>1. /\ IsFrame(Len(stack), Top, handler) /\ Top \in Frames /\ Len(stack) \in Nat \ {0}
        /\ Top.pc = "write" /\ (pie <=> MayEnter(Len(stack), Top)) /\ IsCurrent(Top)
        /\ (Len(stack) = 1 => Top = stack[1])
    BY OnTop, StackTop DEF IrqInv, WriteActive, At, Top
  <1>2. f \in Frames
    <2> QED
      BY <1>1 DEF Frames, Labels
  <1>3. /\ f.pc = "ienable" /\ f.status = Top.status
        /\ f.irq = Top.irq /\ f.isr = Top.isr /\ f.outer = Top.outer /\ f.on = Top.on
        /\ f.locked = Top.locked /\ f.home = Top.home /\ f.then = Top.then /\ f.i = Top.i
    BY <1>1 DEF Frames
  <1>4. Goto(f) /\ UNCHANGED <<cpu, alt_priority_mask, table, lines>>
    BY DEF WriteActive
  <1>5. /\ Top.irq \in Irqs /\ alt_irq_active' \subseteq Irqs
         /\ alt_irq_active' = IF Top.on THEN alt_irq_active \cup {Top.irq}
                              ELSE alt_irq_active \ {Top.irq}
    <2>1. Top.irq \in Irqs
      BY <1>1 DEF IsFrame, IsProgram, IsDispatcher, HasIsr, InChange, Registering
    <2>2. Bit(Top.irq) = Top.irq
      <3> QED
        BY <2>1 DEF Bit, Irqs, LinesAreReal
    <2>3. Top.read = alt_irq_active
      BY <1>1 DEF IsCurrent
    <2> QED
      BY <2>1, <2>2, <2>3 DEF WriteActive, IrqInv, IrqTypes
  <1> HIDE DEF f
  <1>6. IsFrame(Len(stack), f, handler')
    BY <1>1, <1>3, <1>4 DEF IsFrame, IsProgram, IsDispatcher, InChange, Registering, table
  <1>7. StackIsRight'
    BY <1>2, <1>4, <1>6, OnlyTopMoves DEF table
  <1>8. /\ Len(stack') = Len(stack) /\ Top' = f /\ (Len(stack) = 1 => stack'[1] = f)
        /\ (Len(stack) # 1 => stack'[1] = stack[1]) /\ stack' \in Seq(Frames) /\ stack' # <<>>
    <2>1. Frames \cup {f} = Frames
      BY <1>2
    <2> QED
      BY <1>4, <2>1, StackStep DEF IrqInv
  <1>9. IrqTypes'
    BY <1>4, <1>5, <1>8 DEF IrqInv, IrqTypes, cpu, table
  <1>10. TableIsRight'
    BY <1>1, <1>4, <1>5, <1>8 DEF TableIsRight, IsFrame, IsProgram, IsDispatcher, HasIsr,
       IrqInv, Registering, InChange, table
  <1>11. IsCurrent(Top)' /\ (pie <=> MayEnter(Len(stack), Top))'
    BY <1>1, <1>3, <1>4, <1>5, <1>8 DEF IsCurrent, MayEnter, cpu
  <1> QED
    BY <1>7, <1>9, <1>10, <1>11 DEF IrqInv

LEMMA WriteIenableKeepsInv ==
  ASSUME LinesAreReal, IrqInv, WriteIenable
  PROVE  IrqInv'
  <1> DEFINE f == IF Top.then = "idle" THEN Locals
                   ELSE [Top EXCEPT !.pc = Top.then, !.status = FALSE]
  <1>1. /\ IsFrame(Len(stack), Top, handler) /\ Top \in Frames /\ Len(stack) \in Nat \ {0}
        /\ Top.pc = "ienable" /\ (pie <=> MayEnter(Len(stack), Top)) /\ IsCurrent(Top)
        /\ (Len(stack) = 1 => Top = stack[1])
    BY OnTop, StackTop DEF IrqInv, WriteIenable, At, Top
  <1>2. f \in Frames
    <2>1. CASE Top.then = "idle"
      BY <2>1, LocalsAreOfAFrame
    <2>2. CASE Top.then # "idle"
      BY <1>1, <2>2 DEF Frames, Labels
    <2> QED
      BY <2>1, <2>2
  <1>3. /\ (Top.then = "idle" => f.pc = "idle" /\ f.home = "idle" /\ f.then = "idle")
        /\ (Top.then # "idle" =>
              /\ f.pc = Top.then /\ f.home = Top.home
              /\ f.irq = Top.irq /\ f.isr = Top.isr /\ f.outer = Top.outer /\ f.on = Top.on
              /\ f.locked = Top.locked /\ f.then = Top.then /\ f.i = Top.i)
    <2>1. CASE Top.then = "idle"
      BY <2>1 DEF Locals
    <2>2. CASE Top.then # "idle"
      BY <1>1, <2>2 DEF Frames
    <2> QED
      BY <2>1, <2>2
  <1>4. Goto(f) /\ pie' = Top.status /\ ienable' = alt_irq_active
        /\ UNCHANGED <<masks, table, lines>>
    BY DEF WriteIenable, EnableAll
  <1> HIDE DEF f
  <1>5. IsFrame(Len(stack), f, handler')
    BY <1>1, <1>3, <1>4 DEF IsFrame, IsProgram, IsDispatcher, InChange, Registering, table
  <1>6. StackIsRight'
    BY <1>2, <1>4, <1>5, OnlyTopMoves DEF table
  <1>7. /\ Len(stack') = Len(stack) /\ Top' = f /\ (Len(stack) = 1 => stack'[1] = f)
        /\ (Len(stack) # 1 => stack'[1] = stack[1]) /\ stack' \in Seq(Frames) /\ stack' # <<>>
    <2>1. Frames \cup {f} = Frames
      BY <1>2
    <2> QED
      BY <1>4, <2>1, StackStep DEF IrqInv
  <1>8. IrqTypes'
    BY <1>1, <1>4, <1>7 DEF Frames, IrqInv, IrqTypes, masks, table
  <1>9. TableIsRight'
    BY <1>1, <1>4, <1>7 DEF TableIsRight, IrqInv, masks, table
  <1>10. IsCurrent(Top)' /\ (pie <=> MayEnter(Len(stack), Top))'
    BY <1>1, <1>3, <1>4, <1>7 DEF IsCurrent, MayEnter, IsFrame, IsProgram, IsDispatcher,
       Registering, InChange, masks
  <1> QED
    BY <1>6, <1>8, <1>9, <1>10 DEF IrqInv

LEMMA ChangeKeepsInv ==
  ASSUME LinesAreReal, IrqInv, NEW irq \in Irqs, NEW on \in BOOLEAN, Change(irq, on)
  PROVE  IrqInv'
  <1> DEFINE f == [Top EXCEPT !.pc = "change", !.irq = irq, !.on = on]
  <1>1. /\ Len(stack) = 1 /\ Top = stack[1] /\ IsProgram(Top, handler) /\ Top \in Frames
        /\ Top.pc = "idle" /\ (pie <=> Top.pc = "idle") /\ HasIsr(irq, handler)
    <2>1. Top.pc = "idle" /\ HasIsr(irq, handler)
      BY DEF Change, At, HasIsr
    <2>2. Len(stack) = 1 /\ Top = stack[1] /\ IsProgram(Top, handler) /\ Top \in Frames
      BY <2>1, OnTop, StackTop DEF IrqInv
    <2> QED
      BY <2>1, <2>2 DEF IrqInv, MayEnter
  <1>2. f \in Frames
    <2>1. irq \in Int
      BY DEF Irqs, LinesAreReal
    <2> QED
      BY <1>1, <2>1 DEF Frames, Labels
  <1>3. /\ f.pc = "change" /\ f.irq = irq /\ f.home = Top.home /\ f.then = Top.then
    BY <1>1 DEF Frames
  <1>4. Goto(f) /\ UNCHANGED <<cpu, masks, table, lines>>
    BY DEF Change
  <1> HIDE DEF f
  <1>5. IsFrame(Len(stack), f, handler')
    BY <1>1, <1>3, <1>4 DEF IsFrame, IsProgram, Registering, table
  <1>6. StackIsRight'
    BY <1>1, <1>2, <1>4, <1>5, OnlyTopMoves
  <1>7. /\ Len(stack') = Len(stack) /\ Top' = f /\ (Len(stack) = 1 => stack'[1] = f)
        /\ (Len(stack) # 1 => stack'[1] = stack[1]) /\ stack' \in Seq(Frames) /\ stack' # <<>>
    <2>1. Frames \cup {f} = Frames
      BY <1>2
    <2> QED
      BY <1>4, <2>1, StackStep DEF IrqInv
  <1>8. IrqTypes'
    BY <1>4, <1>7 DEF IrqInv, IrqTypes, cpu, masks, table
  <1>9. TableIsRight'
    BY <1>1, <1>4 DEF TableIsRight, IrqInv, masks, table
  <1>10. IsCurrent(Top)' /\ (pie <=> MayEnter(Len(stack), Top))'
    BY <1>1, <1>3, <1>4, <1>7 DEF IsCurrent, MayEnter, IsProgram, IrqInv, cpu, masks
  <1> QED
    BY <1>6, <1>8, <1>9, <1>10 DEF IrqInv

LEMMA EnterSectionKeepsInv ==
  ASSUME LinesAreReal, IrqInv, EnterSection
  PROVE  IrqInv'
  <1> DEFINE f == [Top EXCEPT !.pc = "locked", !.locked = pie]
  <1>1. /\ Len(stack) = 1 /\ Top = stack[1] /\ IsProgram(Top, handler) /\ Top \in Frames
        /\ Top.pc = "idle" /\ (pie <=> Top.pc = "idle")
    <2>1. Top.pc = "idle"
      BY DEF EnterSection, At
    <2>2. Len(stack) = 1 /\ Top = stack[1] /\ IsProgram(Top, handler) /\ Top \in Frames
      BY <2>1, OnTop, StackTop DEF IrqInv
    <2> QED
      BY <2>1, <2>2 DEF IrqInv, MayEnter
  <1>2. f \in Frames
    BY <1>1 DEF Frames, Labels
  <1>3. /\ f.pc = "locked" /\ f.locked /\ f.home = Top.home /\ f.then = Top.then
    BY <1>1 DEF Frames
  <1>4. Goto(f) /\ pie' = FALSE /\ UNCHANGED <<ienable, masks, table, lines>>
    BY DEF EnterSection, DisableAll
  <1> HIDE DEF f
  <1>5. IsFrame(Len(stack), f, handler')
    BY <1>1, <1>3 DEF IsFrame, IsProgram, InChange, Registering
  <1>6. StackIsRight'
    BY <1>1, <1>2, <1>4, <1>5, OnlyTopMoves
  <1>7. /\ Len(stack') = Len(stack) /\ Top' = f /\ (Len(stack) = 1 => stack'[1] = f)
        /\ (Len(stack) # 1 => stack'[1] = stack[1]) /\ stack' \in Seq(Frames) /\ stack' # <<>>
    <2>1. Frames \cup {f} = Frames
      BY <1>2
    <2> QED
      BY <1>4, <2>1, StackStep DEF IrqInv
  <1>8. IrqTypes'
    BY <1>4, <1>7 DEF IrqInv, IrqTypes, masks, table
  <1>9. TableIsRight'
    BY <1>1, <1>4 DEF TableIsRight, IrqInv, masks, table
  <1>10. IsCurrent(Top)' /\ (pie <=> MayEnter(Len(stack), Top))'
    BY <1>1, <1>3, <1>4, <1>7 DEF IsCurrent, MayEnter, IrqInv, masks
  <1> QED
    BY <1>6, <1>8, <1>9, <1>10 DEF IrqInv

LEMMA LeaveSectionKeepsInv ==
  ASSUME LinesAreReal, IrqInv, LeaveSection
  PROVE  IrqInv'
  <1> DEFINE f == [Top EXCEPT !.pc = "idle", !.locked = FALSE]
  <1>1. /\ Len(stack) = 1 /\ Top = stack[1] /\ IsProgram(Top, handler) /\ Top \in Frames
        /\ Top.pc \in {"locked", "leave"} /\ (pie <=> Top.pc = "idle")
    <2>1. Top.pc \in {"locked", "leave"}
      BY DEF LeaveSection, At
    <2>2. Len(stack) = 1 /\ Top = stack[1] /\ IsProgram(Top, handler) /\ Top \in Frames
      BY <2>1, OnTop, StackTop DEF IrqInv
    <2> QED
      BY <2>1, <2>2 DEF IrqInv, MayEnter
  <1>2. f \in Frames
    BY <1>1 DEF Frames, Labels
  <1>3. /\ f.pc = "idle" /\ f.home = Top.home /\ f.then = Top.then
    BY <1>1 DEF Frames
  <1>4. Goto(f) /\ pie' = Top.locked /\ UNCHANGED <<ienable, masks, table, lines>>
    BY DEF LeaveSection, EnableAll
  <1> HIDE DEF f
  <1>5. IsFrame(Len(stack), f, handler')
    BY <1>1, <1>3 DEF IsFrame, IsProgram, InChange, Registering
  <1>6. StackIsRight'
    BY <1>1, <1>2, <1>4, <1>5, OnlyTopMoves
  <1>7. /\ Len(stack') = Len(stack) /\ Top' = f /\ (Len(stack) = 1 => stack'[1] = f)
        /\ (Len(stack) # 1 => stack'[1] = stack[1]) /\ stack' \in Seq(Frames) /\ stack' # <<>>
    <2>1. Frames \cup {f} = Frames
      BY <1>2
    <2> QED
      BY <1>4, <2>1, StackStep DEF IrqInv
  <1>8. IrqTypes'
    BY <1>1, <1>4, <1>7 DEF Frames, IrqInv, IrqTypes, masks, table
  <1>9. TableIsRight'
    BY <1>1, <1>4 DEF TableIsRight, IrqInv, masks, table
  <1>10. IsCurrent(Top)' /\ (pie <=> MayEnter(Len(stack), Top))'
    BY <1>1, <1>3, <1>4, <1>7 DEF IsCurrent, MayEnter, IsProgram, IrqInv, masks
  <1> QED
    BY <1>6, <1>8, <1>9, <1>10 DEF IrqInv

LEMMA DispatchKeepsInv ==
  ASSUME LinesAreReal, IrqInv, NEW i \in 0 .. NIrq, IsLowest(i, Pending), Dispatch,
         Goto([Top EXCEPT !.pc = "isr", !.i = i])
  PROVE  IrqInv'
  <1> DEFINE f == [Top EXCEPT !.pc = "isr", !.i = i]
  <1>1. /\ Len(stack) # 1 /\ IsDispatcher(Top, handler) /\ Top \in Frames
        /\ Top.pc \in {"first", "again"} /\ (pie <=> MayEnter(Len(stack), Top))
    <2>1. Top.pc \in {"first", "again"}
      BY DEF Dispatch, At
    <2>2. Len(stack) # 1 /\ IsDispatcher(Top, handler) /\ Top \in Frames
      BY <2>1, OnTop, StackTop DEF IrqInv
    <2> QED
      BY <2>1, <2>2 DEF IrqInv
  <1>2. i \in Irqs /\ i \in alt_irq_active
    <2>1. Pending # {} /\ ienable \subseteq alt_irq_active
      BY DEF Dispatch, IrqInv, IsCurrent, At
    <2>2. Pending \subseteq Irqs /\ Pending \subseteq alt_irq_active
      BY <2>1 DEF Pending, IrqInv, IrqTypes
    <2>3. \A j \in Irqs : j \in Int /\ j < NIrq
      BY DEF Irqs, LinesAreReal
    <2>4. i # NIrq
      BY <2>1, <2>2, <2>3 DEF IsLowest
    <2> QED
      BY <2>2, <2>4 DEF IsLowest
  <1>3. f \in Frames
    BY <1>1 DEF Frames, Labels
  <1>4. f.pc = "isr" /\ f.i = i /\ f.outer = Top.outer
    BY <1>1 DEF Frames
  <1>5. Goto(f) /\ UNCHANGED <<cpu, masks, table, lines>>
    BY DEF Dispatch
  <1> HIDE DEF f
  <1>6. IsFrame(Len(stack), f, handler')
    BY <1>1, <1>2, <1>4 DEF IsFrame, IsDispatcher, InChange
  <1>7. StackIsRight'
    BY <1>3, <1>5, <1>6, OnlyTopMoves DEF table
  <1>8. /\ Len(stack') = Len(stack) /\ Top' = f /\ (Len(stack) = 1 => stack'[1] = f)
        /\ (Len(stack) # 1 => stack'[1] = stack[1]) /\ stack' \in Seq(Frames) /\ stack' # <<>>
    <2>1. Frames \cup {f} = Frames
      BY <1>3
    <2> QED
      BY <1>5, <2>1, StackStep DEF IrqInv
  <1>9. IrqTypes'
    BY <1>5, <1>8 DEF IrqInv, IrqTypes, cpu, masks, table
  <1>10. TableIsRight'
    BY <1>1, <1>5, <1>8 DEF TableIsRight, IrqInv, masks, table
  <1>11. IsCurrent(Top)' /\ (pie <=> MayEnter(Len(stack), Top))'
    BY <1>1, <1>2, <1>4, <1>5, <1>8 DEF IsCurrent, MayEnter, IrqInv, cpu, masks
  <1> QED
    BY <1>7, <1>9, <1>10, <1>11 DEF IrqInv

LEMMA InterruptibleKeepsInv ==
  ASSUME LinesAreReal, IrqInv, Interruptible
  PROVE  IrqInv'
  <1> DEFINE f == [Top EXCEPT !.pc = "body", !.old = alt_priority_mask]
  <1>1. /\ Len(stack) # 1 /\ IsDispatcher(Top, handler) /\ Top \in Frames
        /\ Top.pc = "isr" /\ (pie <=> MayEnter(Len(stack), Top)) /\ Top.i \in Nesting
    <2>1. Top.pc = "isr"
      BY DEF Interruptible, At
    <2>2. Len(stack) # 1 /\ IsDispatcher(Top, handler) /\ Top \in Frames
      BY <2>1, OnTop, StackTop DEF IrqInv
    <2> QED
      BY <2>1, <2>2 DEF IrqInv, Interruptible
  <1>2. f \in Frames
    BY <1>1 DEF Frames, Labels, IrqInv, IrqTypes
  <1>3. f.pc = "body" /\ f.i = Top.i /\ f.outer = Top.outer
    BY <1>1 DEF Frames
  <1>4. Goto(f) /\ pie' = TRUE /\ UNCHANGED <<alt_irq_active, table, lines>>
    BY DEF Interruptible
  <1>5. ienable' \subseteq alt_irq_active /\ alt_priority_mask' \subseteq Irqs
    BY DEF Interruptible, HigherThan
  <1> HIDE DEF f
  <1>6. IsFrame(Len(stack), f, handler')
    BY <1>1, <1>3 DEF IsFrame, IsDispatcher, InChange
  <1>7. StackIsRight'
    BY <1>2, <1>4, <1>6, OnlyTopMoves DEF table
  <1>8. /\ Len(stack') = Len(stack) /\ Top' = f /\ (Len(stack) = 1 => stack'[1] = f)
        /\ (Len(stack) # 1 => stack'[1] = stack[1]) /\ stack' \in Seq(Frames) /\ stack' # <<>>
    <2>1. Frames \cup {f} = Frames
      BY <1>2
    <2> QED
      BY <1>4, <2>1, StackStep DEF IrqInv
  <1>9. IrqTypes'
    BY <1>4, <1>5, <1>8 DEF IrqInv, IrqTypes, table
  <1>10. TableIsRight'
    BY <1>1, <1>4, <1>8 DEF TableIsRight, IrqInv, table
  <1>11. IsCurrent(Top)' /\ (pie <=> MayEnter(Len(stack), Top))'
    BY <1>1, <1>3, <1>4, <1>5, <1>8 DEF IsCurrent, MayEnter
  <1> QED
    BY <1>7, <1>9, <1>10, <1>11 DEF IrqInv

LEMMA UninterruptibleKeepsInv ==
  ASSUME LinesAreReal, IrqInv, Uninterruptible
  PROVE  IrqInv'
  <1> DEFINE f == [Top EXCEPT !.pc = "body"]
  <1>1. /\ Len(stack) # 1 /\ IsDispatcher(Top, handler) /\ Top \in Frames
        /\ Top.pc = "isr" /\ (pie <=> MayEnter(Len(stack), Top)) /\ Top.i \notin Nesting
    <2>1. Top.pc = "isr"
      BY DEF Uninterruptible, At
    <2>2. Len(stack) # 1 /\ IsDispatcher(Top, handler) /\ Top \in Frames
      BY <2>1, OnTop, StackTop DEF IrqInv
    <2> QED
      BY <2>1, <2>2 DEF IrqInv, Uninterruptible
  <1>2. f \in Frames
    BY <1>1 DEF Frames, Labels
  <1>3. f.pc = "body" /\ f.i = Top.i /\ f.outer = Top.outer
    BY <1>1 DEF Frames
  <1>4. Goto(f) /\ UNCHANGED <<cpu, masks, table, lines>>
    BY DEF Uninterruptible
  <1> HIDE DEF f
  <1>5. IsFrame(Len(stack), f, handler')
    BY <1>1, <1>3 DEF IsFrame, IsDispatcher, InChange
  <1>6. StackIsRight'
    BY <1>2, <1>4, <1>5, OnlyTopMoves DEF table
  <1>7. /\ Len(stack') = Len(stack) /\ Top' = f /\ (Len(stack) = 1 => stack'[1] = f)
        /\ (Len(stack) # 1 => stack'[1] = stack[1]) /\ stack' \in Seq(Frames) /\ stack' # <<>>
    <2>1. Frames \cup {f} = Frames
      BY <1>2
    <2> QED
      BY <1>4, <2>1, StackStep DEF IrqInv
  <1>8. IrqTypes'
    BY <1>4, <1>7 DEF IrqInv, IrqTypes, cpu, masks, table
  <1>9. TableIsRight'
    BY <1>1, <1>4, <1>7 DEF TableIsRight, IrqInv, masks, table
  <1>10. IsCurrent(Top)' /\ (pie <=> MayEnter(Len(stack), Top))'
    BY <1>1, <1>3, <1>4, <1>7 DEF IsCurrent, MayEnter, IrqInv, cpu, masks
  <1> QED
    BY <1>6, <1>8, <1>9, <1>10 DEF IrqInv

LEMMA IsrChangeKeepsInv ==
  ASSUME LinesAreReal, IrqInv, NEW irq \in IsrChanges, NEW on \in BOOLEAN,
         IsrChange(irq, on)
  PROVE  IrqInv'
  <1> DEFINE f == [Top EXCEPT !.pc = "change", !.irq = irq, !.on = on, !.then = "serve"]
  <1>1. /\ Len(stack) # 1 /\ IsDispatcher(Top, handler) /\ Top \in Frames
        /\ Top.pc = "body" /\ (pie <=> MayEnter(Len(stack), Top)) /\ HasIsr(irq, handler)
    <2>1. Top.pc = "body"
      BY DEF IsrChange, At
    <2>2. Len(stack) # 1 /\ IsDispatcher(Top, handler) /\ Top \in Frames
      BY <2>1, OnTop, StackTop DEF IrqInv
    <2> QED
      BY <2>1, <2>2 DEF IrqInv, IsrChange, HasIsr, LinesAreReal
  <1>2. f \in Frames
    <2>1. irq \in Int
      BY DEF Irqs, LinesAreReal
    <2> QED
      BY <1>1, <2>1 DEF Frames, Labels
  <1>3. f.pc = "change" /\ f.irq = irq /\ f.then = "serve" /\ f.i = Top.i /\ f.outer = Top.outer
    BY <1>1 DEF Frames
  <1>4. Goto(f) /\ UNCHANGED <<cpu, masks, table, lines>>
    BY DEF IsrChange
  <1> HIDE DEF f
  <1>5. IsFrame(Len(stack), f, handler')
    BY <1>1, <1>3, <1>4 DEF IsFrame, IsDispatcher, table
  <1>6. StackIsRight'
    BY <1>2, <1>4, <1>5, OnlyTopMoves DEF table
  <1>7. /\ Len(stack') = Len(stack) /\ Top' = f /\ (Len(stack) = 1 => stack'[1] = f)
        /\ (Len(stack) # 1 => stack'[1] = stack[1]) /\ stack' \in Seq(Frames) /\ stack' # <<>>
    <2>1. Frames \cup {f} = Frames
      BY <1>2
    <2> QED
      BY <1>4, <2>1, StackStep DEF IrqInv
  <1>8. IrqTypes'
    BY <1>4, <1>7 DEF IrqInv, IrqTypes, cpu, masks, table
  <1>9. TableIsRight'
    BY <1>1, <1>4, <1>7 DEF TableIsRight, IrqInv, masks, table
  <1>10. IsCurrent(Top)' /\ (pie <=> MayEnter(Len(stack), Top))'
    BY <1>1, <1>3, <1>4, <1>7 DEF IsCurrent, MayEnter, IrqInv, cpu, masks
  <1> QED
    BY <1>6, <1>8, <1>9, <1>10 DEF IrqInv

LEMMA ServeKeepsInv ==
  ASSUME LinesAreReal, IrqInv, Serve
  PROVE  IrqInv'
  <1> DEFINE f == [Top EXCEPT !.pc = "end", !.irq = 0, !.on = FALSE, !.then = "idle"]
  <1>1. /\ Len(stack) # 1 /\ IsDispatcher(Top, handler) /\ Top \in Frames
        /\ Top.pc \in {"body", "serve"} /\ (pie <=> MayEnter(Len(stack), Top))
    <2>1. Top.pc \in {"body", "serve"}
      BY DEF Serve, At
    <2>2. Len(stack) # 1 /\ IsDispatcher(Top, handler) /\ Top \in Frames
      BY <2>1, OnTop, StackTop DEF IrqInv
    <2> QED
      BY <2>1, <2>2 DEF IrqInv
  <1>2. f \in Frames
    <2>1. 0 \in Int /\ FALSE \in BOOLEAN /\ "end" \in Labels
      BY DEF Labels
    <2> QED
      BY <1>1, <2>1 DEF Frames
  <1>3. f.pc = "end" /\ f.i = Top.i /\ f.outer = Top.outer
    BY <1>1 DEF Frames
  <1>4. Goto(f) /\ lines' = lines \ {Top.i} /\ UNCHANGED <<cpu, masks, table>>
    BY DEF Serve
  <1> HIDE DEF f
  <1>5. IsFrame(Len(stack), f, handler')
    BY <1>1, <1>3 DEF IsFrame, IsDispatcher, InChange
  <1>6. StackIsRight'
    BY <1>2, <1>4, <1>5, OnlyTopMoves DEF table
  <1>7. /\ Len(stack') = Len(stack) /\ Top' = f /\ (Len(stack) = 1 => stack'[1] = f)
        /\ (Len(stack) # 1 => stack'[1] = stack[1]) /\ stack' \in Seq(Frames) /\ stack' # <<>>
    <2>1. Frames \cup {f} = Frames
      BY <1>2
    <2> QED
      BY <1>4, <2>1, StackStep DEF IrqInv
  <1>8. IrqTypes'
    BY <1>4, <1>7 DEF IrqInv, IrqTypes, cpu, masks, table
  <1>9. TableIsRight'
    BY <1>1, <1>4, <1>7 DEF TableIsRight, IrqInv, masks, table
  <1>10. IsCurrent(Top)' /\ (pie <=> MayEnter(Len(stack), Top))'
    BY <1>1, <1>3, <1>4, <1>7 DEF IsCurrent, MayEnter, IrqInv, cpu, masks
  <1> QED
    BY <1>6, <1>8, <1>9, <1>10 DEF IrqInv

LEMMA EndOfNestingKeepsInv ==
  ASSUME LinesAreReal, IrqInv, EndOfNesting
  PROVE  IrqInv'
  <1> DEFINE f == [Top EXCEPT !.pc = "again", !.i = 0, !.old = {}]
  <1>1. /\ Len(stack) # 1 /\ IsDispatcher(Top, handler) /\ Top \in Frames
        /\ Top.pc = "end" /\ (pie <=> MayEnter(Len(stack), Top))
    <2>1. Top.pc = "end"
      BY DEF EndOfNesting, At
    <2>2. Len(stack) # 1 /\ IsDispatcher(Top, handler) /\ Top \in Frames
      BY <2>1, OnTop, StackTop DEF IrqInv
    <2> QED
      BY <2>1, <2>2 DEF IrqInv
  <1>2. f \in Frames
    <2>1. {} \in SUBSET Irqs /\ 0 \in 0 .. NIrq
      BY DEF LinesAreReal
    <2> QED
      BY <1>1, <2>1 DEF Frames, Labels
  <1>3. f.pc = "again" /\ f.outer = Top.outer
    BY <1>1 DEF Frames
  <1>4. Goto(f) /\ pie' = FALSE /\ UNCHANGED <<alt_irq_active, table, lines>>
    BY DEF EndOfNesting
  <1>5. ienable' \subseteq alt_irq_active /\ alt_priority_mask' \subseteq Irqs
    BY <1>1 DEF EndOfNesting, Frames
  <1> HIDE DEF f
  <1>6. IsFrame(Len(stack), f, handler')
    BY <1>1, <1>3 DEF IsFrame, IsDispatcher, InChange
  <1>7. StackIsRight'
    BY <1>2, <1>4, <1>6, OnlyTopMoves DEF table
  <1>8. /\ Len(stack') = Len(stack) /\ Top' = f /\ (Len(stack) = 1 => stack'[1] = f)
        /\ (Len(stack) # 1 => stack'[1] = stack[1]) /\ stack' \in Seq(Frames) /\ stack' # <<>>
    <2>1. Frames \cup {f} = Frames
      BY <1>2
    <2> QED
      BY <1>4, <2>1, StackStep DEF IrqInv
  <1>9. IrqTypes'
    BY <1>4, <1>5, <1>8 DEF IrqInv, IrqTypes, table
  <1>10. TableIsRight'
    BY <1>1, <1>4, <1>8 DEF TableIsRight, IrqInv, table
  <1>11. IsCurrent(Top)' /\ (pie <=> MayEnter(Len(stack), Top))'
    BY <1>3, <1>4, <1>5, <1>8 DEF IsCurrent, MayEnter
  <1> QED
    BY <1>7, <1>9, <1>10, <1>11 DEF IrqInv

LEMMA EndOfIsrKeepsInv ==
  ASSUME LinesAreReal, IrqInv, EndOfIsr
  PROVE  IrqInv'
  <1> DEFINE f == [Top EXCEPT !.pc = "again", !.i = 0]
  <1>1. /\ Len(stack) # 1 /\ IsDispatcher(Top, handler) /\ Top \in Frames
        /\ Top.pc = "end" /\ (pie <=> MayEnter(Len(stack), Top)) /\ Top.i \notin Nesting
    <2>1. Top.pc = "end"
      BY DEF EndOfIsr, At
    <2>2. Len(stack) # 1 /\ IsDispatcher(Top, handler) /\ Top \in Frames
      BY <2>1, OnTop, StackTop DEF IrqInv
    <2> QED
      BY <2>1, <2>2 DEF IrqInv, EndOfIsr
  <1>2. f \in Frames
    <2>1. 0 \in 0 .. NIrq
      BY DEF LinesAreReal
    <2> QED
      BY <1>1, <2>1 DEF Frames, Labels
  <1>3. f.pc = "again" /\ f.outer = Top.outer
    BY <1>1 DEF Frames
  <1>4. Goto(f) /\ UNCHANGED <<cpu, masks, table, lines>>
    BY DEF EndOfIsr
  <1> HIDE DEF f
  <1>5. IsFrame(Len(stack), f, handler')
    BY <1>1, <1>3 DEF IsFrame, IsDispatcher, InChange
  <1>6. StackIsRight'
    BY <1>2, <1>4, <1>5, OnlyTopMoves DEF table
  <1>7. /\ Len(stack') = Len(stack) /\ Top' = f /\ (Len(stack) = 1 => stack'[1] = f)
        /\ (Len(stack) # 1 => stack'[1] = stack[1]) /\ stack' \in Seq(Frames) /\ stack' # <<>>
    <2>1. Frames \cup {f} = Frames
      BY <1>2
    <2> QED
      BY <1>4, <2>1, StackStep DEF IrqInv
  <1>8. IrqTypes'
    BY <1>4, <1>7 DEF IrqInv, IrqTypes, cpu, masks, table
  <1>9. TableIsRight'
    BY <1>1, <1>4, <1>7 DEF TableIsRight, IrqInv, masks, table
  <1>10. IsCurrent(Top)' /\ (pie <=> MayEnter(Len(stack), Top))'
    BY <1>1, <1>3, <1>4, <1>7 DEF IsCurrent, MayEnter, IrqInv, cpu, masks
  <1> QED
    BY <1>6, <1>8, <1>9, <1>10 DEF IrqInv

LEMMA EnterKeepsInv ==
  ASSUME LinesAreReal, IrqInv, Enter
  PROVE  IrqInv'
  <1> DEFINE f == [Locals EXCEPT !.pc = "first", !.outer = pie]
  <1>1. pie /\ Pending # {} /\ pie' = FALSE /\ stack' = Append(stack, f)
        /\ UNCHANGED <<ienable, masks, table, lines>>
    BY DEF Enter, IsInterrupt
  <1>2. f \in Frames
    BY <1>1, LocalsAreOfAFrame DEF Frames, Labels
  <1>3. f.pc = "first" /\ f.outer
    BY <1>1 DEF Locals
  <1>4. /\ Len(stack) \in Nat \ {0} /\ Top = stack[Len(stack)]
        /\ IsFrame(Len(stack), Top, handler) /\ MayEnter(Len(stack), Top) /\ IsCurrent(Top)
    BY <1>1, StackTop, OnTop DEF IrqInv, Top
  <1>5. /\ stack' \in Seq(Frames) /\ stack' # <<>> /\ Len(stack') = Len(stack) + 1
        /\ stack'[Len(stack) + 1] = f /\ Top' = f
        /\ \A k \in 1 .. Len(stack) : stack'[k] = stack[k]
    BY <1>1, <1>2, StackPush DEF IrqInv
  <1>6. 1 \in 1 .. Len(stack) /\ stack'[1] = stack[1] /\ Len(stack') # 1
    BY <1>4, <1>5
  <1> HIDE DEF f
  <1>7. IrqTypes'
    BY <1>1, <1>5 DEF IrqInv, IrqTypes, masks, table
  <1>8. StackIsRight'
    <2>1. ASSUME NEW k \in 1 .. Len(stack')
          PROVE  IsFrame(k, stack'[k], handler')
      <3>1. CASE k \in 1 .. Len(stack)
        BY <1>1, <3>1 DEF IrqInv, StackIsRight, table
      <3>2. CASE k = Len(stack) + 1
        <4>1. k # 1
          BY <1>4, <3>2
        <4>2. IsDispatcher(f, handler')
          BY <1>3 DEF IsDispatcher, InChange
        <4> QED
          BY <1>5, <3>2, <4>1, <4>2 DEF IsFrame
      <3> QED
        BY <1>5, <3>1, <3>2
    <2>2. ASSUME NEW k \in 1 .. Len(stack') - 1
          PROVE  MayEnter(k, stack'[k])
      <3> QED
        BY <1>4, <1>5 DEF IrqInv, StackIsRight
    <2> QED
      BY <2>1, <2>2 DEF StackIsRight
  <1>9. TableIsRight'
    BY <1>1, <1>6 DEF IrqInv, TableIsRight, masks, table
  <1>10. IsCurrent(Top)' /\ (pie <=> MayEnter(Len(stack), Top))'
    <2> QED
      BY <1>1, <1>3, <1>4, <1>5 DEF IsCurrent, MayEnter, Pending, masks
  <1> QED
    BY <1>7, <1>8, <1>9, <1>10 DEF IrqInv

LEMMA ReturnKeepsInv ==
  ASSUME LinesAreReal, IrqInv, Return
  PROVE  IrqInv'
  <1>1. /\ Top.pc = "again" /\ pie' = Top.outer /\ stack' = SubSeq(stack, 1, Len(stack) - 1)
        /\ UNCHANGED <<ienable, masks, table, lines>>
    BY DEF Return, At
  <1>2. Len(stack) >= 2 /\ IsDispatcher(Top, handler) /\ Len(stack) \in Nat /\ Top.outer
    BY <1>1, OnTop DEF IsDispatcher
  <1>3. /\ stack' \in Seq(Frames) /\ stack' # <<>> /\ Len(stack') = Len(stack) - 1
        /\ Top' = stack[Len(stack) - 1]
        /\ \A k \in 1 .. Len(stack) - 1 : stack'[k] = stack[k]
    BY <1>1, <1>2, StackPop DEF IrqInv
  <1>4. Len(stack) - 1 \in 1 .. Len(stack) - 1 /\ 1 \in 1 .. Len(stack) - 1
    BY <1>2
  <1>5. MayEnter(Len(stack) - 1, Top')
    BY <1>3 DEF IrqInv, StackIsRight
  <1>6. IrqTypes'
    BY <1>1, <1>2, <1>3 DEF IrqInv, IrqTypes, masks, table
  <1>7. StackIsRight'
    <2>1. ASSUME NEW k \in 1 .. Len(stack')
          PROVE  IsFrame(k, stack'[k], handler')
      <3> QED
        BY <1>1 DEF IrqInv, StackIsRight, table
    <2>2. ASSUME NEW k \in 1 .. Len(stack') - 1
          PROVE  MayEnter(k, stack'[k])
      <3> QED
        BY <1>3 DEF IrqInv, StackIsRight
    <2> QED
      BY <2>1, <2>2 DEF StackIsRight
  <1>8. TableIsRight'
    BY <1>1, <1>4 DEF IrqInv, TableIsRight, masks, table
  <1>9. IsCurrent(Top)' /\ (pie <=> MayEnter(Len(stack), Top))'
    BY <1>1, <1>2, <1>5 DEF IrqInv, IsCurrent, MayEnter, masks
  <1> QED
    BY <1>6, <1>7, <1>8, <1>9 DEF IrqInv

LEMMA RaiseKeepsInv ==
  ASSUME IrqInv, NEW i \in Irqs, Raise(i)
  PROVE  IrqInv'
  <1>1. lines' = lines \cup {i} /\ UNCHANGED <<cpu, masks, table, stack>> /\ Top' = Top
    BY DEF Raise, Top
  <1>2. IrqTypes'
    BY <1>1 DEF IrqInv, IrqTypes, cpu, masks, table
  <1>3. StackIsRight' /\ TableIsRight'
    BY <1>1 DEF IrqInv, StackIsRight, TableIsRight, masks, table
  <1>4. IsCurrent(Top)' /\ (pie <=> MayEnter(Len(stack), Top))'
    BY <1>1 DEF IrqInv, IsCurrent, Pending, cpu, masks
  <1> QED
    BY <1>2, <1>3, <1>4 DEF IrqInv

LEMMA IrqInvHolds ==
  ASSUME LinesAreReal, Asked \subseteq Nat
  PROVE  IrqSpec => []IrqInv
  <1>1. IrqInit => IrqInv
    <2> SUFFICES ASSUME IrqInit PROVE IrqInv
      OBVIOUS
    <2>1. Locals \in Frames /\ stack = <<Locals>>
      BY LocalsAreOfAFrame DEF IrqInit
    <2>2. stack \in Seq(Frames) /\ stack # <<>> /\ Len(stack) = 1
          /\ stack[1] = Locals /\ Top = Locals
      BY <2>1 DEF Top
    <2>3. IrqTypes
      BY <2>2 DEF IrqTypes, IrqInit
    <2>4. Locals.pc = "idle" /\ Locals.home = "idle" /\ Locals.then = "idle"
      BY DEF Locals
    <2>5. StackIsRight
      BY <2>2, <2>4 DEF StackIsRight, IsFrame, IsProgram, InChange, Registering
    <2>6. TableIsRight /\ IsCurrent(Top) /\ (pie <=> MayEnter(Len(stack), Top))
      BY <2>2, <2>4 DEF TableIsRight, IsCurrent, MayEnter, IrqInit
    <2> QED
      BY <2>3, <2>5, <2>6 DEF IrqInv
  <1>2. IrqInv /\ [IrqNext]_irqVars => IrqInv'
    <2> SUFFICES ASSUME IrqInv, [IrqNext]_irqVars PROVE IrqInv'
      OBVIOUS
    <2>1. CASE Program
      BY <2>1, RegisterKeepsInv, ChangeKeepsInv, SetHandlerKeepsInv, SetContextKeepsInv,
         RestoreKeepsInv, ReadActiveKeepsInv, WriteActiveKeepsInv, WriteIenableKeepsInv,
         EnterSectionKeepsInv, LeaveSectionKeepsInv DEF Program
    <2>2. CASE Dispatcher
      <3>1. CASE Dispatch
        <4>1. PICK i \in 0 .. NIrq : IsLowest(i, Pending)
                                  /\ Goto([Top EXCEPT !.pc = "isr", !.i = i])
          BY <3>1 DEF Dispatch
        <4> QED
          BY <3>1, <4>1, DispatchKeepsInv
      <3> QED
        BY <2>2, <3>1, ReturnKeepsInv, InterruptibleKeepsInv, UninterruptibleKeepsInv,
           IsrChangeKeepsInv, ServeKeepsInv, EndOfNestingKeepsInv, EndOfIsrKeepsInv DEF Dispatcher
    <2>3. CASE Enter
      BY <2>3, EnterKeepsInv
    <2>4. CASE \E i \in Irqs : Raise(i)
      BY <2>4, RaiseKeepsInv
    <2>5. CASE UNCHANGED irqVars
      BY <2>5 DEF irqVars, cpu, masks, table, IrqInv, IrqTypes, StackIsRight, TableIsRight,
         IsCurrent, Pending, Top
    <2> QED
      BY <2>1, <2>2, <2>3, <2>4, <2>5 DEF IrqNext, Processor
  <1> QED
    BY <1>1, <1>2, PTL DEF IrqSpec

LEMMA SafeWhenRight ==
  ASSUME LinesAreReal, IrqInv
  PROVE  PairIsWhole /\ SectionIsAlone /\ StaysInTable /\ SuccessEnables
  <1>1. Len(stack) = 1 => IsProgram(stack[1], handler) /\ Top = stack[1]
    BY OnTop DEF Top, IsFrame
  <1>2. Len(stack) # 1 => IsProgram(stack[1], handler) /\ MayEnter(1, stack[1])
    BY Below
  <1>3. Top.pc = "isr" => Top.i \in Irqs /\ Top.i \in alt_irq_active /\ Len(stack) # 1
    BY OnTop DEF IsDispatcher, IrqInv, IsCurrent
  <1>4. PairIsWhole /\ StaysInTable
    BY <1>2, <1>3 DEF PairIsWhole, StaysInTable, At, MayEnter, IrqInv, TableIsRight, Registering
  <1>5. SectionIsAlone
    BY <1>1, <1>2 DEF SectionIsAlone, InMain, MayEnter, IsProgram, InChange, IrqInv
  <1>6. SuccessEnables
    BY OnTop DEF SuccessEnables, At, IrqInv, IsCurrent, IsProgram, Registering
  <1> QED
    BY <1>4, <1>5, <1>6

LEMMA OneBitAStep ==
  ASSUME LinesAreReal, IrqInv, [IrqNext]_irqVars
  PROVE  [\A j \in Irqs :
             (j \in alt_irq_active <=> j \in alt_irq_active') \/ j = Bit(Top.irq)]_irqVars
  <1>1. CASE WriteActive
    <2>1. Top.read = alt_irq_active
      BY <1>1 DEF WriteActive, At, IrqInv, IsCurrent
    <2> QED
      BY <1>1, <2>1 DEF WriteActive
  <1>2. CASE alt_irq_active' = alt_irq_active
    BY <1>2
  <1>3. WriteActive \/ alt_irq_active' = alt_irq_active
    BY DEF IrqNext, Processor, Enter, Program, Dispatcher, Raise, irqVars, masks, RegisterIsr,
       Change, SetHandler, SetContext, Restore, ReadActive, WriteIenable, EnterSection,
       LeaveSection, Dispatch, Return, Interruptible, Uninterruptible, IsrChange, Serve, EndOfNesting,
       EndOfIsr
  <1> QED
    BY <1>1, <1>2, <1>3

(* Whatever lines there are, with routines that nest and routines that     *)
(* change any line: a dispatched line has a routine with its own context,  *)
(* nothing interrupts a section with interrupts off or a section in it,    *)
(* alt_irq_handler() stays in its table, a registration that succeeds has  *)
(* changed its line, and no change of another line is undone.  A driver    *)
(* passes no number below zero (alt_iic_isr_register() would take it).     *)
THEOREM InterruptsStaySafe ==
  ASSUME LinesAreReal, Asked \subseteq Nat
  PROVE  IrqSpec => /\ [](PairIsWhole /\ SectionIsAlone /\ StaysInTable /\ SuccessEnables)
                    /\ OneBitChanges
  <1>1. IrqSpec => []IrqInv
    BY IrqInvHolds
  <1>2. IrqInv => PairIsWhole /\ SectionIsAlone /\ StaysInTable /\ SuccessEnables
    BY SafeWhenRight
  <1>3. IrqInv /\ [IrqNext]_irqVars =>
          [\A j \in Irqs :
             (j \in alt_irq_active <=> j \in alt_irq_active') \/ j = Bit(Top.irq)]_irqVars
    BY OneBitAStep
  <1> QED
    BY <1>1, <1>2, <1>3, PTL DEF IrqSpec, OneBitChanges
-----------------------------------------------------------------------------
LEMMA MasksStart ==
  ASSUME LinesAreReal, IrqInit
  PROVE  MasksNest
  <1>1. Len(stack) = 1 /\ ienable = {} /\ alt_irq_active = {} /\ alt_priority_mask = Irqs
    BY DEF IrqInit
  <1> QED
    BY <1>1 DEF MasksNest, LinesAbove

\* What the masks say of the code on top.
LEMMA MasksOnTop ==
  ASSUME LinesAreReal, IrqInv, MasksNest
  PROVE  /\ Len(stack) = 1 => alt_priority_mask = Irqs
         /\ Len(stack) # 1 /\ Masking(Top) =>
              Top.old = LinesAbove(Len(stack) - 1) /\ alt_priority_mask = HigherThan(Top.i)
         /\ Len(stack) # 1 /\ ~Masking(Top) => alt_priority_mask = LinesAbove(Len(stack) - 1)
         /\ Top.pc \notin {"first", "again"} => \A k \in 2 .. Len(stack) - 1 : Top.i < stack[k].i
         /\ Top.pc # "ienable" => ienable = alt_irq_active \cap alt_priority_mask
  <1>1. Len(stack) \in Nat \ {0} /\ (Len(stack) # 1 => Len(stack) >= 2)
    BY StackTop DEF IrqInv
  <1>2. Len(stack) # 1 => Len(stack) \in 2 .. Len(stack)
    BY <1>1
  <1>3. Len(stack) # 1 /\ Masking(Top) => Top.old = LinesAbove(Len(stack) - 1)
    BY <1>2 DEF MasksNest, Top
  <1> QED
    BY <1>3 DEF MasksNest, LinesAbove, Top

\* The mask when f is on top of what is there.
MaskUnder(f) ==
  IF Len(stack) = 1 THEN Irqs
  ELSE IF Masking(f) THEN HigherThan(f.i) ELSE LinesAbove(Len(stack) - 1)

\* What they need of a step that moves the code on top only.
LEMMA MasksOfAStep ==
  ASSUME LinesAreReal, IrqInv, MasksNest, NEW f, Goto(f),
         Len(stack) # 1 /\ Masking(f) => f.old = LinesAbove(Len(stack) - 1),
         f.pc \notin {"first", "again"} => \A k \in 2 .. Len(stack) - 1 : f.i < stack[k].i,
         alt_priority_mask' = MaskUnder(f),
         f.pc # "ienable" => ienable' = alt_irq_active' \cap alt_priority_mask'
  PROVE  MasksNest'
  <1>1. /\ Len(stack) \in Nat \ {0} /\ Len(stack') = Len(stack)
        /\ stack'[Len(stack)] = f /\ Top' = f
        /\ \A k \in 1 .. Len(stack) - 1 : stack'[k] = stack[k]
    BY StackTop, StackStep DEF IrqInv
  <1>2. \A k \in 1 .. Len(stack) - 1 : LinesAbove(k)' = LinesAbove(k)
    BY <1>1 DEF LinesAbove
  <1>3. ASSUME NEW k \in 2 .. Len(stack'), Masking(stack'[k])
        PROVE  stack'[k].old = LinesAbove(k - 1)'
    <2>1. CASE k = Len(stack)
      BY <1>1, <1>2, <1>3, <2>1
    <2>2. CASE k # Len(stack)
      BY <1>1, <1>2, <1>3 DEF MasksNest
    <2> QED
      BY <2>1, <2>2
  <1>4. ASSUME NEW k \in 2 .. Len(stack'), NEW l \in 2 .. Len(stack'), k < l,
               stack'[l].pc \notin {"first", "again"}
        PROVE  stack'[l].i < stack'[k].i
    <2>1. k \in 2 .. Len(stack) - 1 /\ k \in 1 .. Len(stack) - 1 /\ k \in 2 .. Len(stack)
      BY <1>1, <1>4
    <2>2. CASE l = Len(stack)
      BY <1>1, <1>4, <2>1, <2>2
    <2>3. CASE l # Len(stack)
      <3>1. l \in 2 .. Len(stack) /\ l \in 1 .. Len(stack) - 1
        BY <1>1, <2>3
      <3> QED
        BY <1>1, <1>4, <2>1, <3>1 DEF MasksNest
    <2> QED
      BY <2>2, <2>3
  <1>5. alt_priority_mask' =
          LinesAbove(IF Len(stack) = 1 \/ Masking(Top) THEN Len(stack) ELSE Len(stack) - 1)'
    <2>1. CASE Len(stack) = 1
      BY <1>1, <2>1 DEF LinesAbove, MaskUnder
    <2>2. CASE Len(stack) # 1 /\ Masking(f)
      BY <1>1, <2>2 DEF LinesAbove, MaskUnder
    <2>3. CASE Len(stack) # 1 /\ ~Masking(f)
      <3>1. Len(stack) - 1 \in 1 .. Len(stack) - 1
        BY <1>1, <2>3
      <3>2. LinesAbove(Len(stack) - 1)' = LinesAbove(Len(stack) - 1)
        BY <1>1, <3>1 DEF LinesAbove
      <3>3. ~Masking(Top)' /\ Len(stack') # 1
        BY <1>1, <2>3 DEF Masking
      <3> QED
        BY <2>3, <3>2, <3>3 DEF MaskUnder
    <2> QED
      BY <2>1, <2>2, <2>3
  <1> QED
    BY <1>1, <1>3, <1>4, <1>5 DEF MasksNest

\* Below which a line is when it interrupts.
LEMMA HigherInterrupts ==
  ASSUME LinesAreReal, IrqInv, MasksNest, Len(stack) # 1, NEW i \in LinesAbove(Len(stack) - 1)
  PROVE  \A k \in 2 .. Len(stack) - 1 : i < stack[k].i
  <1>1. Len(stack) \in Nat \ {0} /\ Len(stack) >= 2
    BY StackTop DEF IrqInv
  <1> SUFFICES ASSUME NEW k \in 2 .. Len(stack) - 1
               PROVE  i < stack[k].i
    OBVIOUS
  <1>2. /\ Len(stack) - 1 # 1 /\ Len(stack) - 1 \in 1 .. Len(stack) - 1
        /\ Len(stack) - 1 \in 2 .. Len(stack) /\ Len(stack) - 1 \in 1 .. Len(stack)
    <2>1. \A n \in Nat \ {0}, j \in Int : j \in 2 .. n - 1 =>
            n - 1 # 1 /\ n - 1 \in 1 .. n - 1 /\ n - 1 \in 2 .. n /\ n - 1 \in 1 .. n
      OBVIOUS
    <2>2. k \in Int
      OBVIOUS
    <2> QED
      BY <1>1, <2>1, <2>2
  <1>3. k \in 2 .. Len(stack) /\ k \in 1 .. Len(stack) /\ (k = Len(stack) - 1 \/ k < Len(stack) - 1)
    BY <1>1
  <1>4. i \in Irqs /\ i < stack[Len(stack) - 1].i
    BY <1>2 DEF LinesAbove, HigherThan
  <1>5. CASE k = Len(stack) - 1
    BY <1>4, <1>5
  <1>6. CASE k < Len(stack) - 1
    <2>1. stack[Len(stack) - 1].pc \notin {"first", "again"}
      BY DEF IrqInv, StackIsRight, MayEnter
    <2>2. stack[Len(stack) - 1].i < stack[k].i
      BY <1>6, <2>1 DEF MasksNest
    <2>3. stack[Len(stack) - 1].i \in 0 .. NIrq /\ stack[k].i \in 0 .. NIrq
      BY StackTop DEF IrqInv, Frames
    <2>4. i \in Int /\ stack[Len(stack) - 1].i \in Int /\ stack[k].i \in Int
      BY <1>4, <2>3 DEF Irqs
    <2> QED
      BY <1>4, <2>2, <2>4
  <1> QED
    BY <1>3, <1>5, <1>6

\* Nothing nests where a routine changes a line.
LEMMA NoneNests ==
  ASSUME LinesAreReal, IrqInv, MasksNest, Nesting = {}
  PROVE  alt_priority_mask = Irqs
  <1>1. CASE Len(stack) = 1
    BY <1>1, MasksOnTop
  <1>2. CASE Len(stack) # 1
    <2>1. Len(stack) \in Nat \ {0} /\ Len(stack) >= 2
      BY <1>2, StackTop DEF IrqInv
    <2>2. \A k \in 1 .. Len(stack) - 1 : k = 1
      BY DEF IrqInv, StackIsRight, MayEnter
    <2>3. Len(stack) - 1 \in 1 .. Len(stack) - 1
      BY <2>1
    <2>4. Len(stack) - 1 = 1
      BY <2>2, <2>3
    <2> QED
      BY <2>4, MasksOnTop DEF Masking, LinesAbove
  <1> QED
    BY <1>1, <1>2

LEMMA MasksReadActive ==
  ASSUME LinesAreReal, IrqInv, MasksNest, ReadActive
  PROVE  MasksNest'
  <1> DEFINE f == [Top EXCEPT !.pc = "write", !.status = pie, !.read = alt_irq_active]
  <1>1. Goto(f) /\ Top \in Frames
    BY StackTop DEF ReadActive, IrqInv
  <1>2. f.pc = "write" /\ f.i = Top.i /\ f.old = Top.old
    BY <1>1 DEF Frames, Locals
  <1> HIDE DEF f
  <1>3. UNCHANGED <<ienable, alt_irq_active, alt_priority_mask>> /\ Top.pc = "change"
    BY DEF ReadActive, At, masks
  <1>4. Len(stack) # 1 /\ Masking(f) => f.old = LinesAbove(Len(stack) - 1)
    BY <1>2, <1>3, MasksOnTop DEF Masking
  <1>5. f.pc \notin {"first", "again"} => \A k \in 2 .. Len(stack) - 1 : f.i < stack[k].i
    BY <1>2, <1>3, MasksOnTop
  <1>6. alt_priority_mask' = MaskUnder(f)
    BY <1>2, <1>3, MasksOnTop DEF Masking, MaskUnder
  <1>7. f.pc # "ienable" => ienable' = alt_irq_active' \cap alt_priority_mask'
    BY <1>2, <1>3, MasksOnTop
  <1> QED
    BY <1>1, <1>4, <1>5, <1>6, <1>7, MasksOfAStep

\* The program, outside ienable: it has no masks, and leaves all as it was.
LEMMA MasksOfProgram ==
  ASSUME LinesAreReal, IrqInv, MasksNest, NEW f, Goto(f),
         UNCHANGED <<ienable, alt_irq_active, alt_priority_mask>>,
         Len(stack) = 1, Top.pc # "ienable"
  PROVE  MasksNest'
  <1>1. \A k \in 2 .. Len(stack) - 1 : f.i < stack[k].i
    OBVIOUS
  <1>2. alt_priority_mask' = MaskUnder(f)
    BY MasksOnTop DEF MaskUnder
  <1>3. ienable' = alt_irq_active' \cap alt_priority_mask'
    BY MasksOnTop
  <1> QED
    BY <1>1, <1>2, <1>3, MasksOfAStep

LEMMA MasksRegister ==
  ASSUME LinesAreReal, IrqInv, MasksNest, NEW irq, NEW isr, RegisterIsr(irq, isr)
  PROVE  MasksNest'
  <1> DEFINE f == [Top EXCEPT !.pc = "handler", !.irq = irq, !.isr = isr, !.outer = pie,
                              !.home = IF At("locked") THEN "leave" ELSE "idle"]
  <1>1. Goto(f)
    BY DEF RegisterIsr
  <1> HIDE DEF f
  <1>2. UNCHANGED <<ienable, alt_irq_active, alt_priority_mask>>
        /\ Len(stack) = 1 /\ Top.pc # "ienable"
    BY OnTop DEF RegisterIsr, masks
  <1> QED
    BY <1>1, <1>2, MasksOfProgram

LEMMA MasksSetHandler ==
  ASSUME LinesAreReal, IrqInv, MasksNest, SetHandler
  PROVE  MasksNest'
  <1> DEFINE f == [Top EXCEPT !.pc = "context"]
  <1>1. Goto(f)
    BY DEF SetHandler
  <1> HIDE DEF f
  <1>2. UNCHANGED <<ienable, alt_irq_active, alt_priority_mask>>
        /\ Len(stack) = 1 /\ Top.pc # "ienable"
    BY OnTop DEF SetHandler, At, cpu, masks
  <1> QED
    BY <1>1, <1>2, MasksOfProgram

LEMMA MasksSetContext ==
  ASSUME LinesAreReal, IrqInv, MasksNest, SetContext
  PROVE  MasksNest'
  <1> DEFINE f == [Top EXCEPT !.pc = "change", !.on = Top.isr # NoIsr, !.then = "restore"]
  <1>1. Goto(f)
    BY DEF SetContext
  <1> HIDE DEF f
  <1>2. UNCHANGED <<ienable, alt_irq_active, alt_priority_mask>>
        /\ Len(stack) = 1 /\ Top.pc # "ienable"
    BY OnTop DEF SetContext, At, cpu, masks
  <1> QED
    BY <1>1, <1>2, MasksOfProgram

LEMMA MasksRestore ==
  ASSUME LinesAreReal, IrqInv, MasksNest, Restore
  PROVE  MasksNest'
  <1> DEFINE f == [Locals EXCEPT !.pc = Top.home, !.locked = Top.locked]
  <1>1. Goto(f)
    BY DEF Restore
  <1> HIDE DEF f
  <1>2. UNCHANGED <<ienable, alt_irq_active, alt_priority_mask>>
        /\ Len(stack) = 1 /\ Top.pc # "ienable"
    BY OnTop DEF Restore, At, masks
  <1> QED
    BY <1>1, <1>2, MasksOfProgram

LEMMA MasksChange ==
  ASSUME LinesAreReal, IrqInv, MasksNest, NEW irq, NEW on, Change(irq, on)
  PROVE  MasksNest'
  <1> DEFINE f == [Top EXCEPT !.pc = "change", !.irq = irq, !.on = on]
  <1>1. Goto(f)
    BY DEF Change
  <1> HIDE DEF f
  <1>2. UNCHANGED <<ienable, alt_irq_active, alt_priority_mask>>
        /\ Len(stack) = 1 /\ Top.pc # "ienable"
    BY OnTop DEF Change, At, cpu, masks
  <1> QED
    BY <1>1, <1>2, MasksOfProgram

LEMMA MasksEnterSection ==
  ASSUME LinesAreReal, IrqInv, MasksNest, EnterSection
  PROVE  MasksNest'
  <1> DEFINE f == [Top EXCEPT !.pc = "locked", !.locked = pie]
  <1>1. Goto(f)
    BY DEF EnterSection
  <1> HIDE DEF f
  <1>2. UNCHANGED <<ienable, alt_irq_active, alt_priority_mask>>
        /\ Len(stack) = 1 /\ Top.pc # "ienable"
    BY OnTop DEF EnterSection, At, masks
  <1> QED
    BY <1>1, <1>2, MasksOfProgram

LEMMA MasksLeaveSection ==
  ASSUME LinesAreReal, IrqInv, MasksNest, LeaveSection
  PROVE  MasksNest'
  <1> DEFINE f == [Top EXCEPT !.pc = "idle", !.locked = FALSE]
  <1>1. Goto(f)
    BY DEF LeaveSection
  <1> HIDE DEF f
  <1>2. UNCHANGED <<ienable, alt_irq_active, alt_priority_mask>>
        /\ Len(stack) = 1 /\ Top.pc # "ienable"
    BY OnTop DEF LeaveSection, masks
  <1> QED
    BY <1>1, <1>2, MasksOfProgram

LEMMA MasksWriteActive ==
  ASSUME LinesAreReal, IrqInv, MasksNest, WriteActive
  PROVE  MasksNest'
  <1> DEFINE f == [Top EXCEPT !.pc = "ienable", !.read = {}]
  <1>1. Goto(f) /\ Top \in Frames
    BY StackTop DEF WriteActive, IrqInv
  <1>2. f.pc = "ienable" /\ f.i = Top.i /\ f.old = Top.old
    BY <1>1 DEF Frames, Locals
  <1> HIDE DEF f
  <1>3. UNCHANGED <<ienable, alt_priority_mask>> /\ Top.pc = "write"
    BY DEF WriteActive, At, cpu
  <1>4. Len(stack) # 1 /\ Masking(f) => f.old = LinesAbove(Len(stack) - 1)
    BY <1>2, <1>3, MasksOnTop DEF Masking
  <1>5. f.pc \notin {"first", "again"} => \A k \in 2 .. Len(stack) - 1 : f.i < stack[k].i
    BY <1>2, <1>3, MasksOnTop
  <1>6. alt_priority_mask' = MaskUnder(f)
    BY <1>2, <1>3, MasksOnTop DEF Masking, MaskUnder
  <1>7. f.pc # "ienable" => ienable' = alt_irq_active' \cap alt_priority_mask'
    BY <1>2, <1>3, MasksOnTop
  <1> QED
    BY <1>1, <1>4, <1>5, <1>6, <1>7, MasksOfAStep

LEMMA MasksUninterruptible ==
  ASSUME LinesAreReal, IrqInv, MasksNest, Uninterruptible
  PROVE  MasksNest'
  <1> DEFINE f == [Top EXCEPT !.pc = "body"]
  <1>1. Goto(f) /\ Top \in Frames
    BY StackTop DEF Uninterruptible, IrqInv
  <1>2. f.pc = "body" /\ f.i = Top.i /\ f.old = Top.old
    BY <1>1 DEF Frames, Locals
  <1> HIDE DEF f
  <1>3. UNCHANGED <<ienable, alt_irq_active, alt_priority_mask>> /\ Top.pc = "isr"
        /\ Len(stack) # 1 /\ Top.i \notin Nesting
    BY OnTop DEF Uninterruptible, At, cpu, masks
  <1>4. Len(stack) # 1 /\ Masking(f) => f.old = LinesAbove(Len(stack) - 1)
    BY <1>2, <1>3 DEF Masking
  <1>5. f.pc \notin {"first", "again"} => \A k \in 2 .. Len(stack) - 1 : f.i < stack[k].i
    BY <1>2, <1>3, MasksOnTop
  <1>6. alt_priority_mask' = MaskUnder(f)
    BY <1>2, <1>3, MasksOnTop DEF Masking, MaskUnder
  <1>7. f.pc # "ienable" => ienable' = alt_irq_active' \cap alt_priority_mask'
    BY <1>2, <1>3, MasksOnTop
  <1> QED
    BY <1>1, <1>4, <1>5, <1>6, <1>7, MasksOfAStep

LEMMA MasksIsrChange ==
  ASSUME LinesAreReal, IrqInv, MasksNest, NEW irq, NEW on, IsrChange(irq, on)
  PROVE  MasksNest'
  <1> DEFINE f == [Top EXCEPT !.pc = "change", !.irq = irq, !.on = on, !.then = "serve"]
  <1>1. Goto(f) /\ Top \in Frames
    BY StackTop DEF IsrChange, IrqInv
  <1>2. f.pc = "change" /\ f.i = Top.i /\ f.old = Top.old
    BY <1>1 DEF Frames, Locals
  <1> HIDE DEF f
  <1>3. UNCHANGED <<ienable, alt_irq_active, alt_priority_mask>>
        /\ Top.pc = "body" /\ Len(stack) # 1
    BY OnTop DEF IsrChange, At, cpu, masks
  <1>4. Len(stack) # 1 /\ Masking(f) => f.old = LinesAbove(Len(stack) - 1)
    BY <1>2, <1>3, MasksOnTop DEF Masking
  <1>5. f.pc \notin {"first", "again"} => \A k \in 2 .. Len(stack) - 1 : f.i < stack[k].i
    BY <1>2, <1>3, MasksOnTop
  <1>6. alt_priority_mask' = MaskUnder(f)
    BY <1>2, <1>3, MasksOnTop DEF Masking, MaskUnder
  <1>7. f.pc # "ienable" => ienable' = alt_irq_active' \cap alt_priority_mask'
    BY <1>2, <1>3, MasksOnTop
  <1> QED
    BY <1>1, <1>4, <1>5, <1>6, <1>7, MasksOfAStep

LEMMA MasksServe ==
  ASSUME LinesAreReal, IrqInv, MasksNest, Serve
  PROVE  MasksNest'
  <1> DEFINE f == [Top EXCEPT !.pc = "end", !.irq = 0, !.on = FALSE, !.then = "idle"]
  <1>1. Goto(f) /\ Top \in Frames
    BY StackTop DEF Serve, IrqInv
  <1>2. f.pc = "end" /\ f.i = Top.i /\ f.old = Top.old
    BY <1>1 DEF Frames, Locals
  <1> HIDE DEF f
  <1>3. UNCHANGED <<ienable, alt_irq_active, alt_priority_mask>>
        /\ Top.pc \in {"body", "serve"} /\ Len(stack) # 1
    BY OnTop DEF Serve, cpu, masks
  <1>4. Len(stack) # 1 /\ Masking(f) => f.old = LinesAbove(Len(stack) - 1)
    BY <1>2, <1>3, MasksOnTop DEF Masking
  <1>5. f.pc \notin {"first", "again"} => \A k \in 2 .. Len(stack) - 1 : f.i < stack[k].i
    BY <1>2, <1>3, MasksOnTop
  <1>6. alt_priority_mask' = MaskUnder(f)
    BY <1>2, <1>3, MasksOnTop DEF Masking, MaskUnder
  <1>7. f.pc # "ienable" => ienable' = alt_irq_active' \cap alt_priority_mask'
    BY <1>2, <1>3, MasksOnTop
  <1> QED
    BY <1>1, <1>4, <1>5, <1>6, <1>7, MasksOfAStep

LEMMA MasksEndOfIsr ==
  ASSUME LinesAreReal, IrqInv, MasksNest, EndOfIsr
  PROVE  MasksNest'
  <1> DEFINE f == [Top EXCEPT !.pc = "again", !.i = 0]
  <1>1. Goto(f) /\ Top \in Frames
    BY StackTop DEF EndOfIsr, IrqInv
  <1>2. f.pc = "again"
    BY <1>1 DEF Frames, Locals
  <1> HIDE DEF f
  <1>3. UNCHANGED <<ienable, alt_irq_active, alt_priority_mask>>
        /\ Top.pc = "end" /\ Len(stack) # 1 /\ Top.i \notin Nesting
    BY OnTop DEF EndOfIsr, At, cpu, masks
  <1>4. Len(stack) # 1 /\ Masking(f) => f.old = LinesAbove(Len(stack) - 1)
    BY <1>2 DEF Masking
  <1>5. f.pc \notin {"first", "again"} => \A k \in 2 .. Len(stack) - 1 : f.i < stack[k].i
    BY <1>2
  <1>6. alt_priority_mask' = MaskUnder(f)
    BY <1>2, <1>3, MasksOnTop DEF Masking, MaskUnder
  <1>7. f.pc # "ienable" => ienable' = alt_irq_active' \cap alt_priority_mask'
    BY <1>2, <1>3, MasksOnTop
  <1> QED
    BY <1>1, <1>4, <1>5, <1>6, <1>7, MasksOfAStep

LEMMA MasksEndOfNesting ==
  ASSUME LinesAreReal, IrqInv, MasksNest, EndOfNesting
  PROVE  MasksNest'
  <1> DEFINE f == [Top EXCEPT !.pc = "again", !.i = 0, !.old = {}]
  <1>1. Goto(f) /\ Top \in Frames
    BY StackTop DEF EndOfNesting, IrqInv
  <1>2. f.pc = "again"
    BY <1>1 DEF Frames, Locals
  <1> HIDE DEF f
  <1>3. /\ Top.pc = "end" /\ Len(stack) # 1 /\ Top.i \in Nesting
        /\ alt_priority_mask' = Top.old /\ ienable' = Top.old \cap alt_irq_active
        /\ UNCHANGED alt_irq_active
    BY OnTop DEF EndOfNesting, At
  <1>4. Len(stack) # 1 /\ Masking(f) => f.old = LinesAbove(Len(stack) - 1)
    BY <1>2 DEF Masking
  <1>5. f.pc \notin {"first", "again"} => \A k \in 2 .. Len(stack) - 1 : f.i < stack[k].i
    BY <1>2
  <1>6. alt_priority_mask' = MaskUnder(f)
    BY <1>2, <1>3, MasksOnTop DEF Masking, MaskUnder
  <1>7. f.pc # "ienable" => ienable' = alt_irq_active' \cap alt_priority_mask'
    BY <1>2, <1>3, MasksOnTop
  <1> QED
    BY <1>1, <1>4, <1>5, <1>6, <1>7, MasksOfAStep

LEMMA MasksInterruptible ==
  ASSUME LinesAreReal, IrqInv, MasksNest, Interruptible
  PROVE  MasksNest'
  <1> DEFINE f == [Top EXCEPT !.pc = "body", !.old = alt_priority_mask]
  <1>1. Goto(f) /\ Top \in Frames
    BY StackTop DEF Interruptible, IrqInv
  <1>2. f.pc = "body" /\ f.i = Top.i /\ f.old = alt_priority_mask
    BY <1>1 DEF Frames, Locals
  <1> HIDE DEF f
  <1>3. /\ Top.pc = "isr" /\ Len(stack) # 1 /\ Top.i \in Nesting
        /\ alt_priority_mask' = HigherThan(Top.i)
        /\ ienable' = alt_irq_active \cap alt_priority_mask' /\ UNCHANGED alt_irq_active
    BY OnTop DEF Interruptible, At
  <1>4. Len(stack) # 1 /\ Masking(f) => f.old = LinesAbove(Len(stack) - 1)
    BY <1>2, <1>3, MasksOnTop DEF Masking
  <1>5. f.pc \notin {"first", "again"} => \A k \in 2 .. Len(stack) - 1 : f.i < stack[k].i
    BY <1>2, <1>3, MasksOnTop
  <1>6. alt_priority_mask' = MaskUnder(f)
    BY <1>2, <1>3 DEF Masking, MaskUnder
  <1>7. f.pc # "ienable" => ienable' = alt_irq_active' \cap alt_priority_mask'
    BY <1>2, <1>3, MasksOnTop
  <1> QED
    BY <1>1, <1>4, <1>5, <1>6, <1>7, MasksOfAStep

LEMMA MasksDispatch ==
  ASSUME LinesAreReal, IrqInv, MasksNest, NEW i \in 0 .. NIrq, IsLowest(i, Pending), Dispatch,
         Goto([Top EXCEPT !.pc = "isr", !.i = i])
  PROVE  MasksNest'
  <1> DEFINE f == [Top EXCEPT !.pc = "isr", !.i = i]
  <1>1. Goto(f) /\ Top \in Frames
    BY StackTop DEF Dispatch, IrqInv
  <1>2. f.pc = "isr" /\ f.i = i
    BY <1>1 DEF Frames, Locals
  <1> HIDE DEF f
  <1>3. UNCHANGED <<ienable, alt_irq_active, alt_priority_mask>>
        /\ Top.pc \in {"first", "again"} /\ Len(stack) # 1
    BY OnTop DEF Dispatch, At, cpu, masks
  <1>4. \A k \in 2 .. Len(stack) - 1 : i < stack[k].i
    <2>1. Pending # {}
      BY DEF Dispatch, IrqInv, IsCurrent, At
    <2>2. Pending \subseteq LinesAbove(Len(stack) - 1) /\ Pending \subseteq Irqs
      BY <1>3, MasksOnTop DEF Pending, Masking, IrqInv, IrqTypes
    <2>3. \A j \in Irqs : j \in Int /\ j < NIrq
      BY DEF Irqs, LinesAreReal
    <2>4. i # NIrq
      BY <2>1, <2>2, <2>3 DEF IsLowest
    <2>5. i \in LinesAbove(Len(stack) - 1)
      BY <2>2, <2>4 DEF IsLowest
    <2> QED
      BY <1>3, <2>5, HigherInterrupts
  <1>5. Len(stack) # 1 /\ Masking(f) => f.old = LinesAbove(Len(stack) - 1)
    BY <1>2 DEF Masking
  <1>6. f.pc \notin {"first", "again"} => \A k \in 2 .. Len(stack) - 1 : f.i < stack[k].i
    BY <1>2, <1>4
  <1>7. alt_priority_mask' = MaskUnder(f)
    BY <1>2, <1>3, MasksOnTop DEF Masking, MaskUnder
  <1>8. f.pc # "ienable" => ienable' = alt_irq_active' \cap alt_priority_mask'
    BY <1>3, MasksOnTop
  <1> QED
    BY <1>1, <1>5, <1>6, <1>7, <1>8, MasksOfAStep

LEMMA MasksWriteIenable ==
  ASSUME LinesAreReal, IrqInv, MasksNest, WriteIenable,
         Nesting = {} \/ IsrChanges = {}
  PROVE  MasksNest'
  <1> DEFINE f == IF Top.then = "idle" THEN Locals
                   ELSE [Top EXCEPT !.pc = Top.then, !.status = FALSE]
  <1>1. Goto(f) /\ Top \in Frames
    BY StackTop DEF WriteIenable, IrqInv
  <1>2. /\ Top.then = "idle" => f.pc = "idle"
        /\ Top.then # "idle" => f.pc = Top.then /\ f.i = Top.i /\ f.old = Top.old
    BY <1>1 DEF Frames, Locals
  <1> HIDE DEF f
  <1>3. /\ ienable' = alt_irq_active /\ UNCHANGED <<alt_irq_active, alt_priority_mask>>
        /\ Top.pc = "ienable" /\ alt_priority_mask = Irqs
        /\ (Len(stack) = 1 \/ (Nesting = {} /\ Top.then = "serve"))
    <2>1. /\ ienable' = alt_irq_active /\ UNCHANGED <<alt_irq_active, alt_priority_mask>>
          /\ Top.pc = "ienable"
      BY DEF WriteIenable, At, masks
    <2>2. CASE Len(stack) = 1
      BY <2>1, <2>2, MasksOnTop
    <2>3. CASE Len(stack) # 1
      <3>1. Top.then = "serve" /\ Top.irq \in IsrChanges
        BY <2>1, <2>3, OnTop DEF IsFrame, IsDispatcher, InChange
      <3> QED
        BY <2>1, <3>1, NoneNests
    <2> QED
      BY <2>2, <2>3
  <1>4. Len(stack) # 1 /\ Masking(f) => f.old = LinesAbove(Len(stack) - 1)
    BY <1>3 DEF Masking
  <1>5. f.pc \notin {"first", "again"} => \A k \in 2 .. Len(stack) - 1 : f.i < stack[k].i
    BY <1>2, <1>3, MasksOnTop
  <1>6. alt_priority_mask' = MaskUnder(f)
    BY <1>3, MasksOnTop DEF Masking, MaskUnder
  <1>7. f.pc # "ienable" => ienable' = alt_irq_active' \cap alt_priority_mask'
    BY <1>3 DEF IrqInv, IrqTypes
  <1> QED
    BY <1>1, <1>4, <1>5, <1>6, <1>7, MasksOfAStep

LEMMA MasksEnter ==
  ASSUME LinesAreReal, IrqInv, MasksNest, Enter
  PROVE  MasksNest'
  <1> DEFINE f == [Locals EXCEPT !.pc = "first", !.outer = pie]
  <1>1. pie /\ stack' = Append(stack, f) /\ UNCHANGED <<ienable, masks>>
    BY DEF Enter, IsInterrupt
  <1>2. f \in Frames /\ f.pc = "first"
    BY LocalsAreOfAFrame DEF Frames, Labels, IrqInv, IrqTypes
  <1> HIDE DEF f
  <1>3. /\ Len(stack') = Len(stack) + 1 /\ stack'[Len(stack) + 1] = f /\ Top' = f
        /\ \A k \in 1 .. Len(stack) : stack'[k] = stack[k]
    BY <1>1, <1>2, StackPush DEF IrqInv
  <1>4. Len(stack) \in Nat \ {0} /\ MayEnter(Len(stack), Top) /\ Top.pc # "ienable"
    BY <1>1, StackTop DEF IrqInv, MayEnter
  <1>5. \A k \in 1 .. Len(stack) : LinesAbove(k)' = LinesAbove(k)
    BY <1>3 DEF LinesAbove
  <1>6. \A k \in 2 .. Len(stack') : Masking(stack'[k]) => stack'[k].old = LinesAbove(k - 1)'
    BY <1>2, <1>3, <1>5 DEF MasksNest, Masking
  <1>7. ASSUME NEW k \in 2 .. Len(stack'), NEW l \in 2 .. Len(stack'), k < l,
               stack'[l].pc \notin {"first", "again"}
        PROVE  stack'[l].i < stack'[k].i
    <2>1. l # Len(stack) + 1
      BY <1>2, <1>3, <1>7
    <2> QED
      BY <1>3, <1>7, <2>1 DEF MasksNest
  <1>8. alt_priority_mask' = LinesAbove(Len(stack))
    <2>1. alt_priority_mask = LinesAbove(Len(stack))
      BY <1>4, MasksOnTop DEF MayEnter, Masking, LinesAbove, Top
    <2> QED
      BY <1>1, <2>1 DEF masks
  <1>9. alt_priority_mask' =
           LinesAbove(IF Len(stack) = 1 \/ Masking(Top) THEN Len(stack) ELSE Len(stack) - 1)'
    <2>1. Len(stack') # 1 /\ Len(stack') - 1 = Len(stack) /\ Len(stack) \in 1 .. Len(stack)
      BY <1>3, <1>4
    <2>2. ~Masking(Top)'
      BY <1>2, <1>3 DEF Masking
    <2> QED
      BY <1>5, <1>8, <2>1, <2>2
  <1>10. ienable' = alt_irq_active' \cap alt_priority_mask'
    BY <1>1, <1>4, MasksOnTop DEF masks
  <1> QED
    BY <1>6, <1>7, <1>9, <1>10 DEF MasksNest

LEMMA MasksReturn ==
  ASSUME LinesAreReal, IrqInv, MasksNest, Return
  PROVE  MasksNest'
  <1>1. /\ Top.pc = "again" /\ stack' = SubSeq(stack, 1, Len(stack) - 1)
        /\ UNCHANGED <<ienable, masks>>
    BY DEF Return, At
  <1>2. Len(stack) # 1 /\ Len(stack) >= 2 /\ Len(stack) \in Nat
    BY <1>1, OnTop
  <1>3. /\ Len(stack') = Len(stack) - 1 /\ Top' = stack[Len(stack) - 1]
        /\ \A k \in 1 .. Len(stack) - 1 : stack'[k] = stack[k]
    BY <1>1, <1>2, StackPop DEF IrqInv
  <1>4. Len(stack) - 1 \in 1 .. Len(stack) - 1
    BY <1>2
  <1>5. MayEnter(Len(stack) - 1, Top')
    BY <1>3, <1>4 DEF IrqInv, StackIsRight
  <1>6. \A k \in 2 .. Len(stack') :
          k \in 2 .. Len(stack) /\ k \in 1 .. Len(stack) - 1 /\ k - 1 \in 1 .. Len(stack) - 1
    BY <1>2, <1>3
  <1>7. \A k \in 1 .. Len(stack) - 1 : LinesAbove(k)' = LinesAbove(k)
    BY <1>3 DEF LinesAbove
  <1>8. \A k \in 2 .. Len(stack') : Masking(stack'[k]) => stack'[k].old = LinesAbove(k - 1)'
    BY <1>3, <1>6, <1>7 DEF MasksNest
  <1>9. \A k \in 2 .. Len(stack'), l \in 2 .. Len(stack') :
          k < l /\ stack'[l].pc \notin {"first", "again"} => stack'[l].i < stack'[k].i
    BY <1>3, <1>6 DEF MasksNest
  <1>10. alt_priority_mask' = LinesAbove(Len(stack) - 1)
    BY <1>1, <1>2, MasksOnTop DEF Masking, masks
  <1>11. alt_priority_mask' =
           LinesAbove(IF Len(stack) = 1 \/ Masking(Top) THEN Len(stack) ELSE Len(stack) - 1)'
    <2>1. Len(stack') = 1 \/ Masking(Top)'
      BY <1>3, <1>5 DEF MayEnter, Masking
    <2> QED
      BY <1>3, <1>4, <1>7, <1>10, <2>1
  <1>12. ienable' = alt_irq_active' \cap alt_priority_mask'
    BY <1>1, MasksOnTop DEF masks
  <1> QED
    BY <1>8, <1>9, <1>11, <1>12 DEF MasksNest

LEMMA MasksRaise ==
  ASSUME MasksNest, UNCHANGED <<ienable, masks, stack>>
  PROVE  MasksNest'
  BY DEF MasksNest, LinesAbove, masks, Top

LEMMA MasksStayNested ==
  ASSUME LinesAreReal, Asked \subseteq Nat, Nesting = {} \/ IsrChanges = {}
  PROVE  IrqSpec => []MasksNest
  <1>1. IrqInit => MasksNest
    BY MasksStart
  <1>2. IrqInv /\ MasksNest /\ [IrqNext]_irqVars => MasksNest'
    <2> SUFFICES ASSUME IrqInv, MasksNest, [IrqNext]_irqVars PROVE MasksNest'
      OBVIOUS
    <2>1. CASE Program
      BY <2>1, MasksRegister, MasksChange, MasksSetHandler, MasksSetContext, MasksRestore,
         MasksReadActive, MasksWriteActive, MasksWriteIenable, MasksEnterSection,
         MasksLeaveSection DEF Program
    <2>2. CASE Dispatcher
      <3>1. CASE Dispatch
        <4>1. PICK i \in 0 .. NIrq : IsLowest(i, Pending)
                                  /\ Goto([Top EXCEPT !.pc = "isr", !.i = i])
          BY <3>1 DEF Dispatch
        <4> QED
          BY <3>1, <4>1, MasksDispatch
      <3> QED
        BY <2>2, <3>1, MasksReturn, MasksInterruptible, MasksUninterruptible, MasksIsrChange,
           MasksServe, MasksEndOfNesting, MasksEndOfIsr DEF Dispatcher
    <2>3. CASE Enter
      BY <2>3, MasksEnter
    <2>4. CASE (\E i \in Irqs : Raise(i)) \/ UNCHANGED irqVars
      BY <2>4, MasksRaise DEF Raise, irqVars, cpu
    <2> QED
      BY <2>1, <2>2, <2>3, <2>4 DEF IrqNext, Processor
  <1>3. IrqSpec => []IrqInv
    BY IrqInvHolds
  <1> QED
    BY <1>1, <1>2, <1>3, PTL DEF IrqSpec

(* Where no routine both lets itself be interrupted and changes lines,     *)
(* nested masks leave nothing behind when the program runs again, and only *)
(* a line of higher priority interrupts a routine.  (With both,            *)
(* alt_irq_enable() writes ienable from the copy, without the mask.)       *)
THEOREM MasksAreUndone ==
  ASSUME LinesAreReal, Asked \subseteq Nat, Nesting = {} \/ IsrChanges = {}
  PROVE  IrqSpec => [](CopyIsTrue /\ OnlyHigherInterrupts)
  <1>1. IrqInv /\ MasksNest => CopyIsTrue
    BY MasksOnTop DEF CopyIsTrue, InMain, IrqInv, IrqTypes
  <1>2. IrqInv /\ MasksNest => OnlyHigherInterrupts
    <2> SUFFICES ASSUME IrqInv, MasksNest, NEW k \in 2 .. Len(stack),
                        NEW l \in k + 1 .. Len(stack),
                        stack[l].pc \in {"isr", "body", "end"}
                 PROVE  stack[l].i < stack[k].i
      BY DEF OnlyHigherInterrupts
    <2>1. Len(stack) \in Nat \ {0}
      BY StackTop DEF IrqInv
    <2>2. l \in 2 .. Len(stack) /\ k < l
      BY <2>1
    <2> QED
      BY <2>2 DEF MasksNest
  <1>3. IrqSpec => []IrqInv /\ []MasksNest
    BY IrqInvHolds, MasksStayNested
  <1> QED
    BY <1>1, <1>2, <1>3, PTL
-----------------------------------------------------------------------------
(* The wall clock.                                                         *)

\* A number in places of d is its quotient and its remainder.
LEMMA RemainderIs ==
  ASSUME NEW d \in Nat \ {0}, NEW q \in Int, NEW r \in 0 .. d - 1
  PROVE  (d * q + r) \div d = q /\ (d * q + r) % d = r
<1> DEFINE z == d * q
           a == z + r
<1>1. z \in Int /\ a \in Int /\ d * q <= a /\ a < d * q + d  OBVIOUS
<1>2. a \div d = q  BY <1>1, QuotientIs
<1>3. a = d * (a \div d) + (a % d) /\ a % d \in Int  BY <1>1, DivMod
<1>4. a = z + (a % d)  BY <1>2, <1>3
<1>5. a % d = r
  <2>1. a = z + r  OBVIOUS
  <2> HIDE DEF a, z
  <2> QED  BY <1>1, <1>3, <1>4, <2>1
<1> QED  BY <1>2, <1>5

\* The parts of n ticks are whole seconds and the parts that are left, which
\* gettimeofday() gets one from a division and the other from a remainder.
LEMMA SecondsAndParts ==
  ASSUME ClockIsReal, NEW n \in Nat
  PROVE  /\ US \div tick_rate \in Nat \ {0} /\ n \div tick_rate \in Nat
         /\ PartsOfTicks(n) \in 0 .. US - 1
         /\ n * (US \div tick_rate) = US * (n \div tick_rate) + PartsOfTicks(n)
<1> DEFINE q == US \div tick_rate
           s == n \div tick_rate
           r == n % tick_rate
<1>1. /\ US \in Nat \ {0} /\ tick_rate \in Nat \ {0} /\ tick_rate <= US
      /\ US % tick_rate = 0
  BY DEF ClockIsReal
<1>2. q \in Int /\ US = tick_rate * q  BY <1>1, DivMod
<1>3. s \in Int /\ r \in 0 .. tick_rate - 1 /\ n = tick_rate * s + r  BY <1>1, DivMod
<1> HIDE DEF q, s, r
<1>4. q \in Nat \ {0}  BY <1>1, <1>2
<1>5. s \in Nat
  <2>1. ASSUME s <= -1 PROVE FALSE
    <3>1. tick_rate * s <= tick_rate * (-1)  BY <1>1, <1>3, <2>1
    <3> QED  BY <1>1, <1>3, <3>1
  <2> QED  BY <1>3, <2>1
<1>6. r * q \in 0 .. US - 1
  <2>1. r * q <= (tick_rate - 1) * q /\ 0 <= r * q  BY <1>1, <1>3, <1>4
  <2>2. (tick_rate - 1) * q = US - q  BY <1>1, <1>2, <1>4
  <2> QED  BY <1>1, <1>3, <1>4, <2>1, <2>2
<1>7. n * q = US * s + r * q  BY <1>1, <1>2, <1>3, <1>4
<1>8. (n * q) % US = r * q
  <2> DEFINE w == r * q
  <2>1. w \in 0 .. US - 1 /\ n * q = US * s + w  BY <1>6, <1>7
  <2> HIDE DEF w
  <2>2. (US * s + w) % US = w  BY <1>1, <1>3, <2>1, RemainderIs
  <2>3. (n * q) % US = w  BY <2>1, <2>2
  <2> QED  BY <2>3 DEF w
<1> QED  BY <1>4, <1>5, <1>6, <1>7, <1>8 DEF PartsOfTicks, q, s

\* Bringing the parts into a second keeps the time, unless it is before zero.
LEMMA NormalizedKeeps ==
  ASSUME ClockIsReal, NEW s \in Int, NEW u \in Int, -US <= u, 0 <= s * US + u
  PROVE  /\ Normalized(s, u)[2] \in 0 .. US - 1
         /\ InParts(Normalized(s, u)) = s * US + u
<1>1. US \in Nat \ {0}  BY DEF ClockIsReal
<1>2. CASE u < 0
  <2>1. s > 0
    <3>1. ASSUME s <= 0 PROVE FALSE
      <4>1. s * US <= 0  BY <1>1, <3>1
      <4> QED  BY <1>1, <1>2, <4>1
    <3> QED  BY <3>1
  <2>2. Normalized(s, u) = <<s - 1, u + US>>  BY <1>1, <1>2, <2>1 DEF Normalized
  <2>3. (s - 1) * US + (u + US) = s * US + u  BY <1>1
  <2> QED  BY <1>1, <1>2, <2>2, <2>3 DEF InParts
<1>3. CASE ~(u < 0)
  <2> DEFINE k == u \div US
             r == u % US
  <2>1. k \in Int /\ r \in 0 .. US - 1 /\ u = US * k + r  BY <1>1, DivMod
  <2>2. Normalized(s, u) = <<s + k, r>>  BY <1>3 DEF Normalized
  <2> HIDE DEF k, r
  <2>3. (s + k) * US + r = s * US + u  BY <1>1, <2>1
  <2> QED  BY <2>1, <2>2, <2>3 DEF InParts
<1> QED  BY <1>2, <1>3

\* The reset time is what the clock would have said at tick zero.
TimeInv ==
  /\ _alt_tick_rate \in {0, tick_rate} /\ _alt_nticks \in 0 .. MaxTicks
  /\ set.time \in Nat \X (0 .. US - 1) /\ set.tick \in 0 .. _alt_nticks
  /\ alt_resettime =
       <<set.time[1] - set.tick \div tick_rate, set.time[2] - PartsOfCount(set.tick)>>

LEMMA TimeStarts ==
  ASSUME ClockIsReal, TimeInit
  PROVE  TimeInv
<1>1. tick_rate \in Nat \ {0} /\ Width \in Nat \ {0} /\ US \in Nat \ {0} /\ MaxTicks \in Nat
  BY DEF ClockIsReal
<1>2. US \div tick_rate \in Int  BY <1>1, DivMod
<1>3. 0 * (US \div tick_rate) = 0  BY <1>2
<1>4. \A d \in Nat \ {0} : 0 \div d = 0 /\ 0 % d = 0  OBVIOUS
<1>5. PartsOfCount(0) = 0 /\ 0 \div tick_rate = 0  BY <1>1, <1>3, <1>4 DEF PartsOfCount
<1>6. <<0, 0>> \in Nat \X (0 .. US - 1)  BY <1>1
<1> QED  BY <1>1, <1>5, <1>6 DEF TimeInit, TimeInv

LEMMA TimeStepKeeps ==
  ASSUME ClockIsReal, TimeInv, [TimeNext]_timeVars
  PROVE  TimeInv'
<1>1. tick_rate \in Nat \ {0} /\ Width \in Nat \ {0} /\ US \in Nat \ {0} /\ MaxTicks \in 0 .. Width - 1
  BY DEF ClockIsReal
<1>2. CASE Sysclk_init  BY <1>2 DEF Sysclk_init, TimeInv, PartsOfCount
<1>3. CASE SysTick
  <2>1. _alt_nticks + 1 \in 0 .. Width - 1  BY <1>1, <1>3 DEF SysTick, TimeInv
  <2>2. \A n \in 0 .. Width - 1 : n % Width = n  BY <1>1
  <2>3. _alt_nticks' = _alt_nticks + 1 /\ _alt_nticks' \in 0 .. MaxTicks
    BY <1>1, <1>3, <2>1, <2>2 DEF SysTick, TimeInv
  <2> QED  BY <1>1, <1>3, <2>3 DEF SysTick, TimeInv, PartsOfCount
<1>4. CASE Gettimeofday  BY <1>4 DEF Gettimeofday, TimeInv, PartsOfCount
<1>5. ASSUME NEW t \in Times, Settimeofday(t) PROVE TimeInv'
  <2>1. _alt_tick_rate = tick_rate  BY <1>5 DEF Settimeofday, TimeInv
  <2>2. t \in Nat \X (0 .. US - 1)  BY DEF ClockIsReal
  <2>3. set'.time = t /\ set'.tick = _alt_nticks  BY <1>5 DEF Settimeofday
  <2> QED  BY <1>5, <2>1, <2>2, <2>3 DEF Settimeofday, TimeInv, PartsOfCount
<1>6. CASE UNCHANGED timeVars  BY <1>6 DEF timeVars, TimeInv, PartsOfCount
<1> QED  BY <1>2, <1>3, <1>4, <1>5, <1>6 DEF TimeNext

LEMMA TimeIsRight ==
  ASSUME ClockIsReal, TimeInv, Gettimeofday, set.tick * (US \div tick_rate) < Width
  PROVE  /\ tod'[2] \in 0 .. US - 1
         /\ InParts(tod') = InParts(set.time) + (Ticks(_alt_nticks) - set.tick) * (US \div tick_rate)
<1> DEFINE q == US \div tick_rate
           n == _alt_nticks
           m == set.tick
           a == n \div tick_rate
           b == m \div tick_rate
           x == PartsOfTicks(n)
           y == PartsOfTicks(m)
           t1 == set.time[1]
           t2 == set.time[2]
<1>1. /\ US \in Nat \ {0} /\ Width \in Nat \ {0} /\ n \in Nat /\ m \in Nat /\ m <= n
      /\ t1 \in Nat /\ t2 \in 0 .. US - 1
  BY DEF ClockIsReal, TimeInv
<1>2. q \in Nat \ {0} /\ a \in Nat /\ x \in 0 .. US - 1 /\ n * q = US * a + x
  BY <1>1, SecondsAndParts
<1>3. b \in Nat /\ y \in 0 .. US - 1 /\ m * q = US * b + y
  BY <1>1, SecondsAndParts
<1>4. PartsOfCount(m) = y
  <2>1. m * q \in 0 .. Width - 1  BY <1>1, <1>2
  <2>2. \A k \in 0 .. Width - 1 : k % Width = k  BY <1>1
  <2> QED  BY <2>1, <2>2 DEF PartsOfCount, PartsOfTicks
<1>5. tod' = Normalized(t1 - b + a, t2 - y + x)
  BY <1>4 DEF Gettimeofday, Now, TimeInv
<1>6. Ticks(_alt_nticks) = n  BY DEF Gettimeofday, Ticks
<1>7. InParts(set.time) = t1 * US + t2  BY DEF InParts
<1> HIDE DEF q, n, m, a, b, x, y, t1, t2
<1>8. (t1 - b + a) * US + (t2 - y + x) = t1 * US + t2 + (n - m) * q
  <2>1. (t1 - b + a) * US = t1 * US - US * b + US * a  BY <1>1, <1>2, <1>3
  <2>2. (n - m) * q = n * q - m * q  BY <1>1, <1>2
  <2> QED  BY <1>1, <1>2, <1>3, <2>1, <2>2
<1>9. 0 <= t1 * US + t2 + (n - m) * q
  <2>1. 0 <= (n - m) * q /\ 0 <= t1 * US  BY <1>1, <1>2
  <2> QED  BY <1>1, <1>2, <2>1
<1>10. /\ t1 - b + a \in Int /\ t2 - y + x \in Int /\ -US <= t2 - y + x
  BY <1>1, <1>2, <1>3
<1>11. /\ tod'[2] \in 0 .. US - 1
       /\ InParts(tod') = t1 * US + t2 + (n - m) * q
  BY <1>5, <1>8, <1>9, <1>10, NormalizedKeeps DEF InParts
<1> QED  BY <1>6, <1>7, <1>11 DEF q, m

-----------------------------------------------------------------------------
(* The timestamp.                                                          *)

\* Two halves are put together to the number they were taken from.
LEMMA HalvesAreWhole ==
  ASSUME HalfIsReal, NEW n \in Int
  PROVE  (n \div Half) * Half + (n % Half) = n /\ n \div Half \in Int /\ n % Half \in 0 .. Half - 1
<1>1. /\ Half \in Nat \ {0} /\ n \div Half \in Int /\ n % Half \in 0 .. Half - 1
      /\ n = Half * (n \div Half) + (n % Half)
  BY DivMod DEF HalfIsReal
<1>2. \A k \in Int : Half * k = k * Half  BY <1>1
<1> QED  BY <1>1, <1>2

LEMMA FullIs ==
  ASSUME HalfIsReal
  PROVE  Full \in Nat /\ Full = (Half - 1) * Half + (Half - 1)
<1>1. Half \in Nat /\ Half >= 2  BY DEF HalfIsReal
<1>2. Half * Half >= 4 /\ (Half - 1) * Half = Half * Half - Half  BY <1>1
<1> QED  BY <1>1, <1>2 DEF Full

(* While the timer runs it counts from full scale, and what a call in it   *)
(* has seen lies between what was returned last and the count now.         *)
StampInv ==
  /\ period \in Int /\ counter \in Int /\ snap \in Int
  /\ stamp_pc \in {"idle", "periodl", "periodh", "start", "snap", "snapl", "snaph"}
  /\ running \in BOOLEAN
  /\ stamp_pc = "periodh" => period % Half = Half - 1
  /\ stamp_pc = "start" => period = Full /\ counter = Full
  /\ stamp_pc \in {"periodl", "periodh", "start"} => ~running
  /\ running =>
       /\ ~ended /\ period = Full /\ counter \in 0 .. Full
       /\ stamp \in 0 .. Full - counter
       /\ stamp_pc \in {"snap", "snapl", "snaph"} => from \in stamp .. Full - counter
       /\ stamp_pc \in {"snapl", "snaph"} => snap \in counter .. Full - from
       /\ stamp_pc = "snaph" => lower = snap % Half

LEMMA StampStarts ==
  ASSUME HalfIsReal, StampInit
  PROVE  StampInv
<1>1. period \in Int /\ counter \in Int /\ snap \in Int
  <2>1. Half + 1 \in Int  BY DEF HalfIsReal
  <2> QED  BY <2>1 DEF StampInit
<1>2. ~running /\ running \in BOOLEAN /\ stamp_pc = "idle"  BY DEF StampInit
<1> QED  BY <1>1, <1>2 DEF StampInv

LEMMA StampStepKeeps ==
  ASSUME HalfIsReal, StampInv, [StampNext]_stampVars
  PROVE  StampInv'
<1>1. Full \in Nat  BY FullIs
<1>2. CASE StopTimer  BY <1>2 DEF StopTimer, StampInv
<1>3. CASE PeriodL
  <2>1. period' = (period \div Half) * Half + Half - 1 /\ counter' = period'
    BY <1>3 DEF PeriodL, SetPeriod
  <2> DEFINE k == period \div Half
  <2>2. Half \in Nat \ {0} /\ k \in Int  BY HalvesAreWhole DEF StampInv, HalfIsReal
  <2> HIDE DEF k
  <2>3. Half - 1 \in 0 .. Half - 1 /\ k * Half + Half - 1 = Half * k + (Half - 1)  BY <2>2
  <2>4. (Half * k + (Half - 1)) % Half = Half - 1  BY <2>2, <2>3, RemainderIs
  <2>5. period' \in Int /\ period' % Half = Half - 1  BY <2>1, <2>2, <2>3, <2>4 DEF k
  <2> QED  BY <1>3, <2>1, <2>5 DEF PeriodL, SetPeriod, StampInv
<1>4. CASE PeriodH
  <2>1. period % Half = Half - 1  BY <1>4 DEF PeriodH, SetPeriod, StampInv
  <2>2. period' = Full /\ counter' = Full  BY <1>4, <2>1, FullIs DEF PeriodH, SetPeriod
  <2> QED  BY <1>1, <1>4, <2>2 DEF PeriodH, SetPeriod, StampInv
<1>5. CASE StartTimer  BY <1>1, <1>5 DEF StartTimer, StampInv
<1>6. CASE Count
  <2>1. CASE counter = 0  BY <1>1, <1>6, <2>1 DEF Count, StampInv
  <2>2. CASE counter # 0  BY <1>1, <1>6, <2>2 DEF Count, StampInv
  <2> QED  BY <2>1, <2>2
<1>7. CASE Call  BY <1>1, <1>7 DEF Call, StampInv, timer
<1>8. CASE CallAtEnd  BY <1>1, <1>8 DEF CallAtEnd, StampInv, timer
<1>9. CASE Snap  BY <1>1, <1>9 DEF Snap, StampInv, timer
<1>10. CASE SnapL  BY <1>1, <1>10 DEF SnapL, StampInv, timer
<1>11. CASE SnapH
  <2>1. running => stamp' = Full - snap
    BY <1>11, HalvesAreWhole DEF SnapH, StampInv
  <2> QED  BY <1>1, <1>11, <2>1 DEF SnapH, StampInv, timer
<1>12. CASE UNCHANGED stampVars  BY <1>12 DEF stampVars, timer, StampInv
<1> QED
  BY <1>2, <1>3, <1>4, <1>5, <1>6, <1>7, <1>8, <1>9, <1>10, <1>11, <1>12 DEF StampNext

LEMMA StampIsRight ==
  ASSUME HalfIsReal, StampInv, StampNext, stamp_pc = "snaph", stamp_pc' = "idle", running
  PROVE  stamp' \in from .. Full - counter /\ stamp' >= stamp
<1>1. SnapH
  BY DEF StampNext, StopTimer, PeriodL, PeriodH, SetPeriod, StartTimer, Count, Call, CallAtEnd, Snap, SnapL
<1>2. stamp' = Full - snap
  BY <1>1, HalvesAreWhole DEF SnapH, StampInv
<1> QED  BY <1>2, FullIs DEF StampInv

(***************************************************************************)
(* A second of any number of ticks, a count of any width and halves of any *)
(* number of values: gettimeofday() gives the time that was set and what   *)
(* has gone by since, and a timestamp is a count the timer had during the  *)
(* call, no earlier than the one before.                                   *)
(***************************************************************************)
THEOREM ClocksAlwaysGoOn ==
  ASSUME ClockIsReal, HalfIsReal
  PROVE  TimeSpec /\ StampSpec => ClocksGoOn
<1>1. TimeInit => TimeInv  BY TimeStarts
<1>2. TimeInv /\ [TimeNext]_timeVars => TimeInv'  BY TimeStepKeeps
<1>3. TimeInv /\ [TimeNext]_timeVars =>
        [tod' # tod /\ set.tick * (US \div tick_rate) < Width =>
           /\ tod'[2] \in 0 .. US - 1
           /\ InParts(tod') =
                InParts(set.time) + (Ticks(_alt_nticks) - set.tick) * (US \div tick_rate)]_timeVars
  <2>1. tod' # tod /\ TimeNext => Gettimeofday
    BY DEF TimeNext, Sysclk_init, SysTick, Settimeofday
  <2> QED  BY <2>1, TimeIsRight
<1>4. TimeSpec => TimeGoesOn  BY <1>1, <1>2, <1>3, PTL DEF TimeSpec, TimeGoesOn
<1>5. StampInit => StampInv  BY StampStarts
<1>6. StampInv /\ [StampNext]_stampVars => StampInv'  BY StampStepKeeps
<1>7. StampInv /\ [StampNext]_stampVars =>
        [stamp_pc = "snaph" /\ stamp_pc' = "idle" /\ running =>
           stamp' \in from .. Full - counter /\ stamp' >= stamp]_stampVars
  BY StampIsRight
<1>8. StampSpec => StampIsTaken  BY <1>5, <1>6, <1>7, PTL DEF StampSpec, StampIsTaken
<1> QED  BY <1>4, <1>8 DEF ClocksGoOn
=============================================================================
