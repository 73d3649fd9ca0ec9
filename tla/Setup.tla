------------------------------- MODULE Setup --------------------------------
(***************************************************************************)
(* How the engine comes to its socket: BPFEngine::setup                    *)
(* (include/iec_core/engines/bpf_engine.h), BPFExecutor                    *)
(* (src/iec_core/engines/bpf_exec.cpp) and the utils::Socket that keeps    *)
(* the descriptor (src/iec_core/utils/socket.cpp).  A step is one system   *)
(* call; any of them may fail, frames arrive between any two, and the rest *)
(* of the process opens and closes descriptors of its own, so that a       *)
(* number that was closed may soon be somebody else's.                     *)
(***************************************************************************)
EXTENDS BpfFilter, FiniteSets

CONSTANTS MaxFd,           \* bound: the descriptors of the process are 0..MaxFd
          Settings,        \* records iface, srcMac, svID; iface is NoIface or the interface
          NoIface,
          OwnMac, NoMac,   \* the interface's MAC; 0xFFFFFFFFFFFF
          Frames,          \* the frames on the network, as in BpfFilter, with ghosts for
                           \* what the sender meant: layout and svID
          Arrivals,        \* bound: the frames of them that arrive during setup
          None

ASSUME SetupAssumption ==
  /\ MaxFd \in Nat
  /\ \A s \in Settings : s.svID \in Seq((1..127) \ {37}) /\ s.srcMac # Placeholder
  /\ OwnMac \notin {Placeholder, NoAddress} /\ NoMac \notin {Placeholder, NoAddress}
  /\ None \notin [ifaceMac : {OwnMac, NoMac}, srcMac : {s.srcMac : s \in Settings},
                  svID : {s.svID : s \in Settings}] \cup {NoSource}
  /\ \A f \in Frames : f.type \in Nat /\ f.pdu \in Seq(0..255) /\ f.ours \in BOOLEAN
  /\ Arrivals \subseteq Frames

Fds    == 0..MaxFd
NoFd   == -1
Closed == [owner |-> "nobody"]
Other  == [owner |-> "other"]

VARIABLES fds,         \* the process's descriptors
          sock_fd,     \* of utils::Socket
          socket_fd,   \* local to setup: what getDeviceSocket has returned so far
          pc, settings,\* where setup is, and its argument
          source,      \* bpfProg.sourceCode
          program,     \* the program in bpfPtr, or None
          alive,       \* the engine exists
          badClose     \* close() was called for a descriptor that is not ours

bpf  == <<source, program>>
vars == <<fds, sock_fd, socket_fd, pc, settings, bpf, alive, badClose>>

Init == /\ fds = [f \in Fds |-> Closed]
        /\ sock_fd = NoFd /\ socket_fd = NoFd
        /\ pc = "idle" /\ settings \in Settings
        /\ source \in {EthernetParse, NoSource} /\ program = None
        /\ alive = TRUE /\ badClose = FALSE

Mine(f) == fds[f].owner = "engine"

(* The lowest free number, as the kernel chooses it.                       *)
Free(f) == fds[f] = Closed /\ \A g \in Fds : g < f => fds[g] # Closed

Goto(label) == pc' = label /\ UNCHANGED <<settings, alive>>
Untouched   == UNCHANGED <<fds, sock_fd, socket_fd, badClose>>

(* close(f), of a descriptor the code believes to be its own.              *)
Close(f) == /\ fds' = [fds EXCEPT ![f] = Closed]
            /\ badClose' = (badClose \/ ~Mine(f))

Named == settings.iface # NoIface

(* get_mac_by_iface_name, with the interface's address file there or not.  *)
IfaceMac(s, there) == IF s.iface = NoIface THEN NoMac ELSE IF there THEN OwnMac ELSE NoAddress

CallSetup(s) == /\ alive /\ pc = "idle"
                /\ socket_fd' = NoFd
                /\ pc' = "load" /\ settings' = s
                /\ \E there \in BOOLEAN : source' = FilterSourceCode(source, IfaceMac(s, there), s)
                /\ UNCHANGED <<fds, sock_fd, program, alive, badClose>>

(* executor.load compiles the program.  External: it may fail for reasons  *)
(* of its own, and whether a BPF object takes a second program is open.    *)
Load == /\ pc = "load"
        /\ \/ Compiles(source) /\ program' = source /\ Goto("loadFunc")
           \/ Goto("failed") /\ UNCHANGED program
        /\ Untouched /\ UNCHANGED source

(* Mutation: no function is needed.                                        *)
LoadNoFunc == /\ pc = "loadFunc"
              /\ Goto("socket") \/ Goto("failed")
              /\ Untouched /\ UNCHANGED bpf

LoadFunc == /\ pc = "loadFunc"
            /\ (HasFunction(program) /\ Goto("socket")) \/ Goto("failed")
            /\ Untouched /\ UNCHANGED bpf

(* socket(PF_PACKET, SOCK_RAW): from here on the kernel queues every frame *)
(* of every interface.                                                     *)
OpenSocket ==
  /\ pc = "socket"
  /\ \/ \E f \in Fds : /\ Free(f)
                       /\ fds' = [fds EXCEPT ![f] = [owner |-> "engine", bound |-> FALSE,
                                                     filter |-> None, queue |-> {}]]
                       /\ socket_fd' = f
                       /\ Goto(IF Named THEN "bind" ELSE "getFlags")
     \/ Goto("failed") /\ UNCHANGED <<fds, socket_fd>>
  /\ UNCHANGED <<sock_fd, bpf, badClose>>

(* An error path of getRawSocket: close, and -1 is returned.               *)
GiveUp(label) == /\ pc = label
                 /\ Close(socket_fd)
                 /\ socket_fd' = NoFd
                 /\ Goto("failed")
                 /\ UNCHANGED <<sock_fd, bpf>>

Bind == \/ /\ pc = "bind"
           /\ fds' = [fds EXCEPT ![socket_fd].bound = TRUE]
           /\ Goto("getFlags")
           /\ UNCHANGED <<sock_fd, socket_fd, bpf, badClose>>
        \/ GiveUp("bind")

(* The ioctl knows no interface without a name.                            *)
GetFlags == \/ pc = "getFlags" /\ Named /\ Goto("setFlags") /\ Untouched /\ UNCHANGED bpf
            \/ GiveUp("getFlags")

SetFlags == \/ pc = "setFlags" /\ Goto("attach") /\ Untouched /\ UNCHANGED bpf
            \/ GiveUp("setFlags")

(* attachRawSocket; when bpf_attach_socket fails the socket is closed, and *)
(* the caller is left with its number and an error.                        *)
Attach == \/ /\ pc = "attach"
             /\ fds' = [fds EXCEPT ![socket_fd].filter = program]
             /\ Goto("setHandle")
             /\ UNCHANGED <<sock_fd, socket_fd, bpf, badClose>>
          \/ /\ pc = "attach"
             /\ Close(socket_fd)
             /\ Goto("failed")
             /\ UNCHANGED <<sock_fd, socket_fd, bpf>>

(* Mutation: the old descriptor is not closed.                             *)
CloseNothing == UNCHANGED <<fds, badClose>>

CloseSocket == IF sock_fd >= 0 THEN Close(sock_fd) ELSE UNCHANGED <<fds, badClose>>

(* setNonBlockingMode only warns when it fails; setup returns true.        *)
SetHandle == /\ pc = "setHandle"
             /\ CloseSocket
             /\ sock_fd' = socket_fd
             /\ Goto("idle")
             /\ UNCHANGED <<socket_fd, bpf>>

(* Mutation: a failed setup hands its socket over all the same.            *)
FailAdopting == /\ pc = "failed"
                /\ sock_fd' = socket_fd
                /\ Goto("idle")
                /\ UNCHANGED <<fds, socket_fd, bpf, badClose>>

(* setup returns false.                                                    *)
Fail == pc = "failed" /\ Goto("idle") /\ Untouched /\ UNCHANGED bpf

(* ~Socket.                                                                *)
Destroy == /\ alive /\ pc = "idle"
           /\ alive' = FALSE
           /\ CloseSocket
           /\ UNCHANGED <<sock_fd, socket_fd, pc, settings, bpf>>

(* External: the rest of the process.                                      *)
OtherOpens  == /\ \E f \in Fds : Free(f) /\ fds' = [fds EXCEPT ![f] = Other]
               /\ UNCHANGED <<sock_fd, socket_fd, pc, settings, bpf, alive, badClose>>
OtherCloses == /\ \E f \in Fds : fds[f] = Other /\ fds' = [fds EXCEPT ![f] = Closed]
               /\ UNCHANGED <<sock_fd, socket_fd, pc, settings, bpf, alive, badClose>>

(* External: the kernel queues a frame in the sockets it matches.  A bound *)
(* socket keeps out what other interfaces receive, its filter what the BPF *)
(* program drops.                                                          *)
Takes(s, frame) == /\ s.owner = "engine"
                   /\ s.bound => frame.ours
                   /\ s.filter # None => Keeps(s.filter, frame)
FrameArrives(frame) ==
  /\ fds' = [f \in Fds |-> IF Takes(fds[f], frame)
                             THEN [fds[f] EXCEPT !.queue = @ \cup {frame}] ELSE fds[f]]
  /\ UNCHANGED <<sock_fd, socket_fd, pc, settings, bpf, alive, badClose>>

SetupStep == \/ \E s \in Settings : CallSetup(s)
             \/ Load \/ LoadFunc \/ OpenSocket \/ Bind \/ GetFlags \/ SetFlags
             \/ Attach \/ SetHandle \/ Fail

Next == \/ SetupStep \/ Destroy \/ OtherOpens \/ OtherCloses
        \/ \E frame \in Arrivals : FrameArrives(frame)

Spec == Init /\ [][Next]_vars
-----------------------------------------------------------------------------
InGetDeviceSocket == {"bind", "getFlags", "setFlags", "attach", "setHandle"}
InProgress == pc \in InGetDeviceSocket
Owned == {f \in Fds : Mine(f)}

(* What a setup with settings s makes of the source when all files are     *)
(* there.                                                                  *)
ProgramFor(s) == [ifaceMac |-> IfaceMac(s, TRUE), srcMac |-> s.srcMac, svID |-> s.svID]
Programs == {ProgramFor(s) : s \in {s \in Settings : s.svID # <<>>}}

TypeOK == /\ sock_fd \in Fds \cup {NoFd} /\ socket_fd \in Fds \cup {NoFd}
          /\ settings \in Settings /\ alive \in BOOLEAN /\ badClose \in BOOLEAN
          /\ fds \in [Fds -> {Closed, Other} \cup
                          [owner : {"engine"}, bound : BOOLEAN,
                           filter : Programs \cup {None}, queue : SUBSET Arrivals]]

(* No descriptor leaks on any of the error paths, on a second setup or at  *)
(* the end: the sockets that are open are the one the engine reads from    *)
(* and the one setup is still working on.                                  *)
EverySocketIsOwned == Owned = (IF alive /\ sock_fd # NoFd THEN {sock_fd} ELSE {})
                                \cup (IF InProgress THEN {socket_fd} ELSE {})

(* A descriptor is closed only while it is ours, never after it was closed *)
(* and given to somebody else.                                             *)
ClosesOnlyItsOwn == ~badClose

(* Whatever calls of setup failed and whatever files were missing, the     *)
(* socket the engine reads from is open, bound to the interface and has    *)
(* the BPF program attached, not one made of no source.                    *)
HandleIsReady == alive /\ sock_fd # NoFd => /\ Mine(sock_fd) /\ fds[sock_fd].bound
                                            /\ fds[sock_fd].filter # None
                                            /\ HasFunction(fds[sock_fd].filter)

(* However many setups failed before, and whatever files were missing, the *)
(* program attached to a socket is one setup's, never put together from    *)
(* the settings of two, nor one with a hole in it.  It is the source as it *)
(* is kept, so that the engine's sockets never differ in their programs:   *)
(* the settings of the first setup stay, and others take no effect.        *)
SettingsAreNotMixed ==
  \A f \in Fds : Mine(f) => fds[f].filter \in {None} \cup ({source} \cap Programs)

(* A source that was filtered stays as it is.                              *)
Filtered == {FilterSourceCode(EthernetParse, IfaceMac(s, there), s) : s \in Settings, there \in BOOLEAN}

SourceInv == /\ source \in {EthernetParse, NoSource} \cup Filtered
             /\ pc = "load" => source # EthernetParse
             /\ program \in {None, NoSource} \cup Programs
             /\ program \in Programs => program = source
             /\ pc = "loadFunc" => program # None
             /\ pc \in {"socket"} \cup InGetDeviceSocket => program \in Programs

(* The inductive invariant behind the four.                                *)
SetupInv == /\ TypeOK
            /\ EverySocketIsOwned /\ ClosesOnlyItsOwn /\ HandleIsReady
            /\ SourceInv
            /\ InProgress => socket_fd # NoFd /\ socket_fd # sock_fd
            /\ pc \in {"getFlags", "setFlags", "attach", "setHandle"} /\ Named => fds[socket_fd].bound
            /\ pc \in {"setFlags", "attach", "setHandle"} => Named
            /\ pc = "setHandle" => fds[socket_fd].filter = program
            /\ pc # "idle" => alive

(* The frames a program is meant for: of its sender and its svID, not sent *)
(* by the interface itself, whole, untagged, and in the layout of an       *)
(* 80-point or a 256-point stream.                                         *)
Wanted(p, frame) == /\ frame.layout \in {"80p", "256p"}
                    /\ frame.src = p.srcMac /\ frame.src # p.ifaceMac
                    /\ frame.svID = p.svID

(* The BPF program finds the svID where the sender put it: it keeps        *)
(* exactly the frames that are wanted.                                     *)
KeepsTheStream ==
  pc = "setHandle" => \A frame \in Frames : Keeps(program, frame) <=> Wanted(program, frame)

(* "return 0 -> DROP the frame": what the BPF program drops never reaches  *)
(* the engine.                                                             *)
QueueIsFiltered ==
  alive /\ sock_fd # NoFd => \A frame \in fds[sock_fd].queue : Keeps(fds[sock_fd].filter, frame)
=============================================================================
