----------------------------- MODULE FileTable -----------------------------
(***************************************************************************)
(* The HAL's pool of file descriptors: alt_fd_list with its high-water     *)
(* mark alt_max_fd, and the system calls that allocate, share, lock and    *)
(* free descriptors.  The first three are the standard streams; at startup *)
(* they lead to /dev/null and are then redirected.                         *)
(*                                                                         *)
(* The build has no operating system, so a call runs without another       *)
(* between its steps; what goes wrong goes wrong over sequences of calls.  *)
(***************************************************************************)
EXTENDS Integers, FiniteSets

CONSTANTS MaxFd,      \* ALT_MAX_FD
          Device,     \* names of devices, among them Null
          Null,       \* /dev/null
          FileSystem, \* names of file systems
          Std,        \* ALT_STDIN, ALT_STDOUT and ALT_STDERR: 0 .. 2 -> Device
          Free,       \* no device
          Picky,      \* devices and file systems whose open() may fail
          OpenModes,  \* of O_RDONLY, O_WRONLY, O_RDWR: what open() is given
          UserFlags   \* of O_NONBLOCK, O_APPEND: what calls may set

ASSUME FdAssumption == MaxFd \in Nat /\ MaxFd >= 4
ASSUME DeviceAssumption ==
  /\ Null \in Device /\ Free \notin Device \cup FileSystem
  /\ Device \cap FileSystem = {}
  /\ Std \in [0 .. 2 -> Device \ {Null}]
  /\ Picky \subseteq (Device \cup FileSystem) \ {Std[i] : i \in 0 .. 2}
ASSUME FlagAssumption ==
  /\ OpenModes \subseteq {"O_RDONLY", "O_WRONLY", "O_RDWR"}
  /\ UserFlags \subseteq {"O_NONBLOCK", "O_APPEND"}

VARIABLES dev,     \* alt_fd_list[i].dev
          mode,    \* O_ACCMODE of fd_flags
          flags,   \* ALT_FD_EXCL, ALT_FD_DEV, O_NONBLOCK and O_APPEND of it
          max_fd,  \* alt_max_fd
          known,   \* alt_dev_list and alt_fs_list
          stage,   \* startup, or the program runs
          held     \* history: what open() returned and close() did not end

vars == <<dev, mode, flags, max_fd, known, stage, held>>

Fds     == 0 .. MaxFd - 1
Streams == 0 .. 2
Modes   == {"O_RDONLY", "O_WRONLY", "O_RDWR"}

\* The descriptors some call may be given: a negative one is turned away, and
\* a free one is not to be used.
Usable == {f \in Fds : dev[f] # Free}

(***************************************************************************)
(* Startup: the drivers register their devices, alt_io_redirect() opens    *)
(* the devices of the streams and moves the descriptors down.              *)
(***************************************************************************)
Register ==
  /\ stage = "init"
  /\ \E d \in (Device \cup FileSystem) \ known : known' = known \cup {d}
  /\ UNCHANGED <<dev, mode, flags, max_fd, stage, held>>

SysInitEnds ==
  /\ stage = "init" /\ {Std[i] : i \in Streams} \subseteq known
  /\ stage' = "redirect"
  /\ UNCHANGED <<dev, mode, flags, max_fd, known, held>>

\* alt_max_fd after alt_get_fd() has returned f.
HighWater(f) == IF f > max_fd THEN f ELSE max_fd

\* alt_open_fd() three times: each takes the first free descriptor, 3, and
\* gives it back.
IoRedirect ==
  /\ stage = "redirect"
  /\ dev' = [f \in Fds |-> IF f \in Streams THEN Std[f] ELSE dev[f]]
  /\ mode' = [f \in Fds |-> CASE f = 0        -> "O_RDONLY"
                              [] f \in {1, 2} -> "O_WRONLY"
                              [] OTHER        -> mode[f]]
  /\ flags' = [f \in Fds |-> IF f \in Streams THEN {"ALT_FD_DEV"} ELSE flags[f]]
  /\ max_fd' = HighWater(3)
  /\ stage' = "main"
  /\ UNCHANGED <<known, held>>

(***************************************************************************)
(* open() and close().                                                     *)
(***************************************************************************)

\* alt_get_fd(): the first free descriptor.
Gets(f) == dev[f] = Free /\ \A g \in Fds : dev[g] = Free => f <= g

\* (Mutant: the search leaves out the high-water mark.)
FileLockedBelow(d, f) ==
  \E g \in Fds : g < HighWater(f) /\ dev[g] = d /\ "ALT_FD_EXCL" \in flags[g]

\* alt_file_locked()
FileLocked(d, f) ==
  \E g \in Fds : g <= HighWater(f) /\ dev[g] = d /\ "ALT_FD_EXCL" \in flags[g]

\* alt_find_dev() comes first, then alt_find_file().
Open(d, f, m, s) ==
  /\ stage = "main" /\ d \in known /\ Gets(f)
  /\ d \in Device => ~FileLocked(d, f)
  /\ dev' = [dev EXCEPT ![f] = d]
  /\ mode' = [mode EXCEPT ![f] = m]
  /\ flags' = [flags EXCEPT ![f] =
                 s \cup (IF d \in Device THEN {"ALT_FD_DEV"} ELSE {})]
  /\ max_fd' = HighWater(f)
  /\ held' = held \cup {f}
  /\ UNCHANGED <<known, stage>>

\* (Mutant: the descriptor is not given back when the device refuses.)
OpenFailsKept(d, f) ==
  /\ stage = "main" /\ d \in known /\ Gets(f)
  /\ \/ d \in Device /\ FileLocked(d, f)
     \/ d \in Picky
  /\ max_fd' = HighWater(f)
  /\ dev' = [dev EXCEPT ![f] = IF d \in Picky THEN d ELSE Free]
  /\ UNCHANGED <<mode, flags, known, stage, held>>

\* A locked device, or a device's own open() that fails: the descriptor goes
\* back to the pool, but the mark has moved.
OpenFails(d, f) ==
  /\ stage = "main" /\ d \in known /\ Gets(f)
  /\ \/ d \in Device /\ FileLocked(d, f)
     \/ d \in Picky
  /\ max_fd' = HighWater(f)
  /\ mode' = [mode EXCEPT ![f] = "O_RDONLY"]
  /\ flags' = [flags EXCEPT ![f] = {}]
  /\ UNCHANGED <<dev, known, stage, held>>

\* alt_release_fd(): the streams are never freed.
Release(f) ==
  IF f > 2
    THEN /\ dev' = [dev EXCEPT ![f] = Free]
         /\ mode' = [mode EXCEPT ![f] = "O_RDONLY"]
         /\ flags' = [flags EXCEPT ![f] = {}]
    ELSE UNCHANGED <<dev, mode, flags>>

\* Whatever the device's own close() returns.
Close(f) ==
  /\ stage = "main" /\ f \in Usable
  /\ Release(f)
  /\ held' = held \ {f}
  /\ UNCHANGED <<max_fd, known, stage>>

(***************************************************************************)
(* ioctl(TIOCEXCL), ioctl(TIOCNXCL) and fcntl(F_SETFL).                    *)
(***************************************************************************)

\* alt_fd_lock(), which searches below the high-water mark.
Shared(f) == \E g \in Fds : g < max_fd /\ g # f /\ dev[g] = dev[f]

Lock(f) ==
  /\ ~Shared(f)
  /\ flags' = [flags EXCEPT ![f] = @ \cup {"ALT_FD_EXCL"}]
  /\ UNCHANGED <<dev, mode, max_fd, known, stage, held>>

Unlock(f) ==
  /\ flags' = [flags EXCEPT ![f] = @ \ {"ALT_FD_EXCL"}]
  /\ UNCHANGED <<dev, mode, max_fd, known, stage, held>>

\* File systems handle these requests themselves.
Ioctl(f) ==
  /\ stage = "main" /\ f \in Usable /\ "ALT_FD_DEV" \in flags[f]
  /\ Lock(f) \/ Unlock(f)

SetFlags(f, s) ==
  /\ stage = "main" /\ f \in Usable
  /\ flags' = [flags EXCEPT ![f] = (@ \ UserFlags) \cup s]
  /\ UNCHANGED <<dev, mode, max_fd, known, stage, held>>

(***************************************************************************)
(* What the other calls decide from the table: read() and write() go to    *)
(* the driver if the descriptor was opened that way; fstat() and isatty()  *)
(* take a device without fstat() for a terminal.  No driver here has one.  *)
(***************************************************************************)
CanRead(f)  == mode[f] # "O_WRONLY"
CanWrite(f) == mode[f] # "O_RDONLY"
IsTty(f)    == dev[f] \in Device

Next ==
  \/ Register
  \/ SysInitEnds
  \/ IoRedirect
  \/ \E d \in Device \cup FileSystem, f \in Fds, m \in OpenModes, s \in SUBSET UserFlags :
       Open(d, f, m, s)
  \/ \E d \in Device \cup FileSystem, f \in Fds : OpenFails(d, f)
  \/ \E f \in Fds : Close(f) \/ Ioctl(f)
  \/ \E f \in Fds, s \in SUBSET UserFlags : SetFlags(f, s)

\* The initialisers of alt_fd_list, alt_max_fd and alt_dev_list.
Init ==
  /\ dev = [f \in Fds |-> IF f \in Streams THEN Null ELSE Free]
  /\ mode = [f \in Fds |-> "O_RDONLY"] /\ flags = [f \in Fds |-> {}]
  /\ max_fd = -1 /\ known = {Null} /\ stage = "init" /\ held = {}

Spec == Init /\ [][Next]_vars

(***************************************************************************)
(* Properties.                                                             *)
(***************************************************************************)

\* The table's entries keep their ranges.
TypeOK ==
  /\ dev \in [Fds -> Device \cup FileSystem \cup {Free}]
  /\ mode \in [Fds -> Modes]
  /\ flags \in [Fds -> SUBSET (UserFlags \cup {"ALT_FD_EXCL", "ALT_FD_DEV"})]
  /\ max_fd \in -1 .. MaxFd - 1 /\ known \subseteq Device \cup FileSystem
  /\ stage \in {"init", "redirect", "main"} /\ held \subseteq Fds

Users(d) == {f \in Fds : dev[f] = d}
Locked(d) == \E f \in Users(d) : "ALT_FD_EXCL" \in flags[f]

\* While a device is locked no open() of it succeeds (alt_file_locked()),
\* wherever in the table the lock is held.
LockHolds ==
  [][\A d \in Device : Locked(d) /\ Locked(d)' => Users(d)' \subseteq Users(d)]_vars

\* At most one descriptor has a device locked, although the search of
\* alt_fd_lock() never looks at the highest descriptor.
OneLock ==
  \A f, g \in Fds :
    dev[f] = dev[g] /\ "ALT_FD_EXCL" \in flags[f] \cap flags[g] => f = g

\* What is in use above the streams is what open() has handed out: no call
\* that fails keeps a descriptor, and none is handed out twice.
NoLeak == {f \in Fds : f > 2 /\ dev[f] # Free} = held \ Streams

\* Nothing is open above the high-water mark, which the searches rely on.
MarkIsHigh == stage = "main" => \A f \in Fds : dev[f] # Free => f <= max_fd

\* Once redirected, the streams stay usable, whatever is closed: standard
\* output and error take output, standard input gives input, and all three
\* are terminals on the devices of system.h.
StreamsStay ==
  stage = "main" =>
    /\ CanRead(0) /\ CanWrite(1) /\ CanWrite(2)
    /\ \A f \in Streams : IsTty(f) /\ dev[f] = Std[f]

\* The descriptors agree with each other, with the mark and with what the
\* program holds, after every sequence of calls.
DescriptorsAgree == TypeOK /\ OneLock /\ NoLeak /\ MarkIsHigh /\ StreamsStay
=============================================================================
