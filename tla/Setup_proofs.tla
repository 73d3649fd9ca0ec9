---------------------------- MODULE Setup_proofs ----------------------------
(***************************************************************************)
(* Proofs about Setup, for any number of descriptors and any settings: the *)
(* inductive invariant, and with it that no descriptor leaks or is closed  *)
(* twice, that the engine's socket is bound and filtered, that the filter  *)
(* is made from the settings of one setup, and that it keeps the frames    *)
(* these settings ask for and no other.                                    *)
(***************************************************************************)
EXTENDS SvFrames, SequenceTheorems, TLAPS

(* Time for every leaf on a machine that is busy with other things.        *)
USE SMTT(60), ZenonT(60)

(* No MAC and no svID looks like a placeholder, so that a source is only   *)
(* filtered once: what the first setup made of it stays.                   *)
LEMMA FilteredStays ==
  ASSUME NEW s \in Settings, NEW there \in BOOLEAN,
         NEW code \in Filtered \cup {NoSource}
  PROVE  FilterSourceCode(code, IfaceMac(s, there), s) = code
<1>1. <<>> # Placeholder /\ Undeclared # Placeholder /\ NoAddress # Placeholder
  BY DEF Placeholder, Undeclared, NoAddress
<1>2. \A t \in Settings : t.svID # Placeholder /\ t.srcMac # Placeholder
  <2> SUFFICES ASSUME NEW t \in Settings, t.svID = Placeholder
               PROVE  FALSE
    BY SetupAssumption
  <2>1. t.svID[1] \in (1..127) \ {37}
    <3>1. t.svID \in Seq((1..127) \ {37})
      BY SetupAssumption
    <3>2. Len(t.svID) = 1
      BY DEF Placeholder
    <3>3. 1 \in 1..Len(t.svID)
      BY <3>2
    <3> QED
      BY <3>1, <3>3, ElementOfSeq
  <2>2. t.svID[1] = 37
    BY DEF Placeholder
  <2> QED
    BY <2>1, <2>2
<1>3. \A t \in Settings, b \in BOOLEAN : IfaceMac(t, b) # Placeholder
  BY <1>1, SetupAssumption DEF IfaceMac
<1>4. CASE code = NoSource
  BY <1>1, <1>4 DEF NoSource, FilterSourceCode, Replace
<1>5. CASE code \in Filtered
  <2>1. PICK t \in Settings, b \in BOOLEAN : code = FilterSourceCode(EthernetParse, IfaceMac(t, b), t)
    BY <1>5 DEF Filtered
  <2>2. code = [ifaceMac |-> IfaceMac(t, b), srcMac |-> t.srcMac,
                svID |-> IF t.svID # <<>> THEN t.svID ELSE Undeclared]
    BY <2>1 DEF FilterSourceCode, EthernetParse, Replace
  <2>3. code.ifaceMac # Placeholder /\ code.srcMac # Placeholder /\ code.svID # Placeholder
    BY <2>2, <1>1, <1>2, <1>3
  <2> QED
    BY <2>2, <2>3 DEF FilterSourceCode, Replace
<1> QED
  BY <1>4, <1>5

LEMMA FilteredAtFirst ==
  ASSUME NEW s \in Settings, NEW there \in BOOLEAN
  PROVE  FilterSourceCode(EthernetParse, IfaceMac(s, there), s) \in Filtered
BY DEF Filtered

(* What compiles of a filtered source is what a setup meant.               *)
LEMMA CompilesToProgram ==
  ASSUME NEW code \in Filtered, Compiles(code)
  PROVE  code \in Programs
<1>1. PICK s \in Settings, there \in BOOLEAN :
        code = FilterSourceCode(EthernetParse, IfaceMac(s, there), s)
  BY DEF Filtered
<1>2. code = [ifaceMac |-> IfaceMac(s, there), srcMac |-> s.srcMac,
              svID |-> IF s.svID # <<>> THEN s.svID ELSE Undeclared]
  BY <1>1 DEF FilterSourceCode, EthernetParse, Replace
<1>3. s.svID # <<>> /\ IfaceMac(s, there) = IfaceMac(s, TRUE)
  BY <1>2 DEF Compiles, IfaceMac
<1> QED
  BY <1>2, <1>3 DEF Programs, ProgramFor

(* A program has the svID of its settings, and no placeholder.             *)
LEMMA ProgramIsFiltered ==
  ASSUME NEW p \in Programs PROVE HasFunction(p) /\ p # EthernetParse
<1>1. PICK s \in Settings : p = ProgramFor(s) /\ s.svID # <<>> /\ s.srcMac # Placeholder
  BY SetupAssumption DEF Programs
<1> QED
  BY <1>1 DEF ProgramFor, HasFunction, NoSource, EthernetParse

LEMMA NoneIsNoProgram == None \notin Programs
<1> SUFFICES ASSUME NEW p \in Programs
             PROVE  p \in [ifaceMac : {OwnMac, NoMac}, srcMac : {s.srcMac : s \in Settings},
                           svID : {s.svID : s \in Settings}]
  BY SetupAssumption
<1>1. PICK s \in Settings : p = ProgramFor(s)
  BY DEF Programs
<1>2. IfaceMac(s, TRUE) \in {OwnMac, NoMac}
  BY DEF IfaceMac
<1> QED
  BY <1>1, <1>2 DEF ProgramFor
-----------------------------------------------------------------------------
LEMMA InitInv == Init => SetupInv
<1> SUFFICES ASSUME Init PROVE SetupInv
  OBVIOUS
<1>1. Owned = {}
  BY DEF Init, Owned, Mine, Closed
<1>2. TypeOK
  BY DEF Init, TypeOK, Closed
<1> QED
  BY <1>1, <1>2, NoneIsNoProgram DEF Init, SetupInv, EverySocketIsOwned, ClosesOnlyItsOwn, HandleIsReady, SourceInv,
     InProgress, InGetDeviceSocket, NoFd

(* A step that changes neither the descriptors nor who holds them.         *)
LEMMA QuietStep ==
  ASSUME SetupInv, Untouched, UNCHANGED <<settings, alive>>,
         pc' \in {"load", "loadFunc", "socket", "failed", "getFlags", "setFlags", "attach", "idle"},
         InProgress <=> InProgress', SourceInv'
  PROVE  /\ TypeOK' /\ EverySocketIsOwned' /\ ClosesOnlyItsOwn' /\ HandleIsReady'
         /\ InProgress' => socket_fd' # NoFd /\ socket_fd' # sock_fd'
BY DEF SetupInv, Untouched, TypeOK, EverySocketIsOwned, ClosesOnlyItsOwn, HandleIsReady, Owned, Mine,
   Programs, ProgramFor

(* Where the program comes from, step by step.                             *)
LEMMA SourceStep ==
  ASSUME SetupInv, SetupStep \/ Destroy
  PROVE  SourceInv'
<1>1. SourceInv
  BY DEF SetupInv
<1>2. ASSUME NEW s \in Settings, CallSetup(s)
      PROVE  SourceInv'
  <2>1. PICK there \in BOOLEAN : source' = FilterSourceCode(source, IfaceMac(s, there), s)
    BY <1>2 DEF CallSetup
  <2>2. source' \in {NoSource} \cup Filtered
    BY <1>1, <2>1, FilteredStays, FilteredAtFirst DEF SourceInv
  <2>3. EthernetParse \notin {NoSource} \cup Filtered
    <3>1. \A code \in {NoSource} \cup Filtered : FilterSourceCode(code, IfaceMac(s, TRUE), s) = code
      BY FilteredStays
    <3>2. EthernetParse.srcMac = Placeholder /\ s.srcMac # Placeholder
      BY SetupAssumption DEF EthernetParse
    <3>3. FilterSourceCode(EthernetParse, IfaceMac(s, TRUE), s).srcMac = s.srcMac
      BY DEF FilterSourceCode, EthernetParse, Replace
    <3> QED
      BY <3>1, <3>2, <3>3
  <2>4. program' = program /\ (program \in Programs => program = source')
    <3>1. program \in Programs => source # EthernetParse /\ source \in {NoSource} \cup Filtered
      BY <1>1, ProgramIsFiltered DEF SourceInv
    <3> QED
      BY <1>1, <1>2, <2>1, <3>1, FilteredStays DEF SourceInv, CallSetup
  <2> QED
    BY <1>1, <1>2, <2>2, <2>3, <2>4 DEF SourceInv, CallSetup, InGetDeviceSocket
<1>3. CASE Load
  <2>1. CASE Compiles(source) /\ program' = source /\ Goto("loadFunc")
    <3>1. source \in {NoSource} \cup Filtered /\ source' = source /\ pc' = "loadFunc"
      BY <1>1, <1>3, <2>1 DEF SourceInv, Load, Goto
    <3>2. program' \in {NoSource} \cup Programs
      BY <2>1, <3>1, CompilesToProgram
    <3>3. program' # None
      BY <3>2, NoneIsNoProgram, SetupAssumption
    <3> QED
      BY <1>1, <2>1, <3>1, <3>2, <3>3 DEF SourceInv, InGetDeviceSocket
  <2>2. CASE Goto("failed") /\ UNCHANGED program
    BY <1>1, <1>3, <2>2 DEF SourceInv, Load, Goto, InGetDeviceSocket
  <2> QED
    BY <1>3, <2>1, <2>2 DEF Load
<1>4. CASE LoadFunc
  BY <1>1, <1>4 DEF SourceInv, LoadFunc, Goto, HasFunction, bpf, InGetDeviceSocket
<1>5. CASE OpenSocket \/ Bind \/ GetFlags \/ SetFlags \/ Attach \/ SetHandle \/ Fail \/ Destroy
  <2>1. UNCHANGED bpf
    BY <1>5 DEF OpenSocket, Bind, GetFlags, SetFlags, Attach, SetHandle, Fail, Destroy, GiveUp
  <2>2. /\ pc' \notin {"load", "loadFunc", "socket"}
        /\ pc' \in InGetDeviceSocket => pc \in {"socket"} \cup InGetDeviceSocket
    BY <1>5 DEF OpenSocket, Bind, GetFlags, SetFlags, Attach, SetHandle, Fail, Destroy, GiveUp, Goto,
       InGetDeviceSocket
  <2> QED
    BY <1>1, <2>1, <2>2 DEF SourceInv, bpf, InGetDeviceSocket
<1> QED
  BY <1>2, <1>3, <1>4, <1>5 DEF SetupStep

-----------------------------------------------------------------------------
(* A descriptor that was nobody's becomes the engine's, or one is closed:  *)
(* what that does to the engine's descriptors.                             *)
LEMMA ClosingOwn ==
  ASSUME TypeOK, NEW f \in Fds, Mine(f), Close(f)
  PROVE  /\ Owned' = Owned \ {f} /\ badClose' = badClose
         /\ fds' \in [Fds -> {Closed, Other} \cup
                          [owner : {"engine"}, bound : BOOLEAN,
                           filter : Programs \cup {None}, queue : SUBSET Arrivals]]
         /\ \A g \in Fds \ {f} : fds'[g] = fds[g]
<1>1. fds' = [fds EXCEPT ![f] = Closed] /\ badClose' = badClose
  BY DEF Close, TypeOK
<1>2. \A g \in Fds : fds'[g] = IF g = f THEN Closed ELSE fds[g]
  BY <1>1 DEF TypeOK
<1> QED
  BY <1>1, <1>2 DEF TypeOK, Owned, Mine, Closed

LEMMA CallSetupStep ==
  ASSUME SetupInv, NEW s \in Settings, CallSetup(s)
  PROVE  SetupInv'
<1>1. SourceInv'
  BY SourceStep DEF SetupStep
<1> QED
  BY <1>1 DEF CallSetup, SetupInv, TypeOK, EverySocketIsOwned, ClosesOnlyItsOwn, HandleIsReady, Owned,
     Mine, InProgress, InGetDeviceSocket

LEMMA LoadStep ==
  ASSUME SetupInv, Load \/ LoadFunc
  PROVE  SetupInv'
<1>1. SourceInv'
  BY SourceStep DEF SetupStep
<1>2. Untouched /\ pc' \in {"loadFunc", "socket", "failed"} /\ UNCHANGED <<settings, alive>>
      /\ pc \in {"load", "loadFunc"}
  BY DEF Load, LoadFunc, Goto
<1> QED
  BY <1>1, <1>2, QuietStep DEF SetupInv, InProgress, InGetDeviceSocket

LEMMA OpenSocketStep ==
  ASSUME SetupInv, OpenSocket
  PROVE  SetupInv'
<1>1. SourceInv'
  BY SourceStep DEF SetupStep
<1>2. CASE Goto("failed") /\ UNCHANGED <<fds, socket_fd>>
  <2>1. Untouched /\ pc = "socket" /\ pc' = "failed" /\ UNCHANGED <<settings, alive>>
    BY <1>2 DEF OpenSocket, Untouched, Goto
  <2> QED
    BY <1>1, <2>1, QuietStep DEF SetupInv, InProgress, InGetDeviceSocket
<1>3. ASSUME NEW f \in Fds, Free(f),
             fds' = [fds EXCEPT ![f] = [owner |-> "engine", bound |-> FALSE, filter |-> None, queue |-> {}]],
             socket_fd' = f,
             Goto(IF Named THEN "bind" ELSE "getFlags")
      PROVE  SetupInv'
  <2>1. \A g \in Fds : fds'[g] = IF g = f THEN [owner |-> "engine", bound |-> FALSE,
                                                filter |-> None, queue |-> {}] ELSE fds[g]
    BY <1>3 DEF SetupInv, TypeOK
  <2>2. Owned' = Owned \cup {f} /\ f \notin Owned
    BY <1>3, <2>1 DEF Owned, Mine, Free, Closed
  <2>3. UNCHANGED <<sock_fd, badClose, settings, alive>> /\ pc = "socket"
    BY <1>3 DEF OpenSocket, Goto
  <2>4. TypeOK'
    BY <1>3, <2>3 DEF SetupInv, TypeOK
  <2>5. pc' = (IF Named THEN "bind" ELSE "getFlags") /\ alive
    BY <1>3, <2>3 DEF SetupInv, Goto
  <2>6. Owned = IF sock_fd # NoFd THEN {sock_fd} ELSE {}
    BY <2>3, <2>5 DEF SetupInv, EverySocketIsOwned, InProgress, InGetDeviceSocket
  <2>7. f # NoFd /\ f # sock_fd
    BY <2>2, <2>6 DEF Fds, NoFd
  <2>8. EverySocketIsOwned'
    BY <1>3, <2>2, <2>3, <2>5, <2>6 DEF EverySocketIsOwned, InProgress, InGetDeviceSocket
  <2>9. HandleIsReady'
    BY <1>3, <2>1, <2>3, <2>7 DEF HandleIsReady, SetupInv, TypeOK, Mine
  <2> QED
    BY <1>1, <1>3, <2>3, <2>4, <2>5, <2>7, <2>8, <2>9
    DEF SetupInv, ClosesOnlyItsOwn, InProgress, InGetDeviceSocket, Named
<1> QED
  BY <1>2, <1>3 DEF OpenSocket

LEMMA GiveUpStep ==
  ASSUME SetupInv, NEW label \in {"bind", "getFlags", "setFlags"}, GiveUp(label), SourceInv'
  PROVE  SetupInv'
<1>1. pc = label /\ InProgress /\ alive /\ socket_fd \in Fds /\ socket_fd # sock_fd
  BY DEF GiveUp, SetupInv, TypeOK, InProgress, InGetDeviceSocket
<1>2. Mine(socket_fd)
  BY <1>1 DEF SetupInv, EverySocketIsOwned, Owned
<1>3. /\ socket_fd' = NoFd /\ pc' = "failed"
      /\ UNCHANGED <<sock_fd, settings, alive>> /\ Close(socket_fd)
  BY DEF GiveUp, Goto
<1> QED
  BY <1>1, <1>2, <1>3, ClosingOwn
  DEF SetupInv, TypeOK, EverySocketIsOwned, ClosesOnlyItsOwn, HandleIsReady, Mine, InProgress,
      InGetDeviceSocket

(* A setting of the socket setup works on changes nothing about who holds  *)
(* it.                                                                     *)
LEMMA SettingStep ==
  ASSUME SetupInv, InProgress, InProgress', SourceInv',
         NEW new \in [owner : {"engine"}, bound : BOOLEAN,
                      filter : Programs \cup {None}, queue : SUBSET Arrivals],
         fds' = [fds EXCEPT ![socket_fd] = new],
         UNCHANGED <<sock_fd, socket_fd, settings, alive, badClose>>
  PROVE  /\ TypeOK' /\ EverySocketIsOwned' /\ ClosesOnlyItsOwn' /\ HandleIsReady'
         /\ fds'[socket_fd] = new
<1>1. socket_fd \in Fds /\ socket_fd # sock_fd /\ Mine(socket_fd)
  BY DEF SetupInv, TypeOK, EverySocketIsOwned, Owned
<1>2. \A g \in Fds : fds'[g] = IF g = socket_fd THEN new ELSE fds[g]
  BY <1>1 DEF SetupInv, TypeOK
<1>3. Owned' = Owned
  BY <1>1, <1>2 DEF Owned, Mine
<1>4. TypeOK'
  BY <1>1 DEF SetupInv, TypeOK
<1>5. EverySocketIsOwned'
  BY <1>3 DEF SetupInv, EverySocketIsOwned
<1>6. HandleIsReady'
  BY <1>1, <1>2 DEF SetupInv, TypeOK, HandleIsReady, Mine
<1> QED
  BY <1>1, <1>2, <1>4, <1>5, <1>6 DEF SetupInv, ClosesOnlyItsOwn

LEMMA BindStep ==
  ASSUME SetupInv, Bind
  PROVE  SetupInv'
<1>1. SourceInv'
  BY SourceStep DEF SetupStep
<1>2. ASSUME pc = "bind", fds' = [fds EXCEPT ![socket_fd].bound = TRUE], Goto("getFlags"),
             UNCHANGED <<sock_fd, socket_fd, bpf, badClose>>
      PROVE  SetupInv'
  <2> DEFINE old == fds[socket_fd]
             new == [owner |-> "engine", bound |-> TRUE, filter |-> old.filter, queue |-> old.queue]
  <2>1. InProgress /\ InProgress'
    BY <1>2 DEF Goto, InProgress, InGetDeviceSocket
  <2>2. socket_fd \in Fds /\ Mine(socket_fd)
    BY <2>1 DEF SetupInv, TypeOK, EverySocketIsOwned, Owned
  <2>3. old \in [owner : {"engine"}, bound : BOOLEAN, filter : Programs \cup {None}, queue : SUBSET Arrivals]
    BY <2>2 DEF SetupInv, TypeOK, Mine, Closed, Other
  <2>4. [old EXCEPT !.bound = TRUE] = new
    <3>1. \A b : [old EXCEPT !.bound = b]
                 = [owner |-> "engine", bound |-> b, filter |-> old.filter, queue |-> old.queue]
      BY <2>3
    <3> HIDE DEF old
    <3> QED
      BY <3>1, Zenon DEF new
  <2>5. fds' = [fds EXCEPT ![socket_fd] = new]
    BY <1>2, <2>4
  <2>6. new \in [owner : {"engine"}, bound : BOOLEAN, filter : Programs \cup {None}, queue : SUBSET Arrivals]
    BY <2>3
  <2>7. UNCHANGED <<sock_fd, socket_fd, settings, alive, badClose>>
    BY <1>2 DEF Goto
  <2>8. /\ TypeOK' /\ EverySocketIsOwned' /\ ClosesOnlyItsOwn' /\ HandleIsReady'
        /\ fds'[socket_fd] = new
    <3> HIDE DEF new
    <3> QED
      BY <1>1, <2>1, <2>5, <2>6, <2>7, SettingStep
  <2> QED
    BY <1>1, <1>2, <2>1, <2>7, <2>8 DEF SetupInv, Goto
<1>3. CASE GiveUp("bind")
  BY <1>1, <1>3, GiveUpStep
<1> QED
  BY <1>2, <1>3 DEF Bind

LEMMA FlagsStep ==
  ASSUME SetupInv, GetFlags \/ SetFlags
  PROVE  SetupInv'
<1>1. SourceInv'
  BY SourceStep DEF SetupStep
<1>2. CASE GiveUp("getFlags") \/ GiveUp("setFlags")
  BY <1>1, <1>2, GiveUpStep
<1>3. CASE \/ pc = "getFlags" /\ Named /\ Goto("setFlags") /\ Untouched /\ UNCHANGED bpf
           \/ pc = "setFlags" /\ Goto("attach") /\ Untouched /\ UNCHANGED bpf
  <2>1. /\ Untouched /\ UNCHANGED <<settings, alive>>
        /\ InProgress /\ InProgress' /\ pc' \in {"setFlags", "attach"}
    BY <1>3 DEF Goto, InProgress, InGetDeviceSocket
  <2>2. /\ TypeOK' /\ EverySocketIsOwned' /\ ClosesOnlyItsOwn' /\ HandleIsReady'
        /\ InProgress' => socket_fd' # NoFd /\ socket_fd' # sock_fd'
    BY <1>1, <2>1, QuietStep
  <2> QED
    BY <1>1, <1>3, <2>1, <2>2 DEF SetupInv, Goto, Named, Untouched
<1> QED
  BY <1>2, <1>3 DEF GetFlags, SetFlags

LEMMA AttachStep ==
  ASSUME SetupInv, Attach
  PROVE  SetupInv'
<1>1. SourceInv'
  BY SourceStep DEF SetupStep
<1>2. /\ InProgress /\ pc = "attach" /\ alive /\ Named
      /\ socket_fd \in Fds /\ socket_fd # sock_fd /\ Mine(socket_fd)
  BY DEF Attach, SetupInv, TypeOK, EverySocketIsOwned, Owned, InProgress, InGetDeviceSocket
<1>3. ASSUME fds' = [fds EXCEPT ![socket_fd].filter = program], Goto("setHandle"),
             UNCHANGED <<sock_fd, socket_fd, bpf, badClose>>
      PROVE  SetupInv'
  <2> DEFINE old == fds[socket_fd]
             new == [owner |-> "engine", bound |-> old.bound, filter |-> program, queue |-> old.queue]
  <2>1. old \in [owner : {"engine"}, bound : BOOLEAN, filter : Programs \cup {None}, queue : SUBSET Arrivals]
    BY <1>2 DEF SetupInv, TypeOK, Mine, Closed, Other
  <2>2. [old EXCEPT !.filter = program] = new
    BY <2>1
  <2>3. fds' = [fds EXCEPT ![socket_fd] = new]
    BY <1>3, <2>2
  <2>4. program \in Programs
    BY <1>2 DEF SetupInv, SourceInv, InGetDeviceSocket
  <2>5. new \in [owner : {"engine"}, bound : BOOLEAN, filter : Programs \cup {None}, queue : SUBSET Arrivals]
    BY <2>1, <2>4
  <2>6. /\ UNCHANGED <<sock_fd, socket_fd, settings, alive, badClose>>
        /\ InProgress' /\ pc' = "setHandle" /\ program' = program
    BY <1>3 DEF Goto, InProgress, InGetDeviceSocket, bpf
  <2>7. /\ TypeOK' /\ EverySocketIsOwned' /\ ClosesOnlyItsOwn' /\ HandleIsReady'
        /\ fds'[socket_fd] = new
    <3> HIDE DEF new
    <3> QED
      BY <1>1, <1>2, <2>3, <2>5, <2>6, SettingStep
  <2>8. old.bound
    BY <1>2 DEF SetupInv
  <2> QED
    BY <1>1, <1>2, <2>6, <2>7, <2>8 DEF SetupInv, Named
<1>4. ASSUME Close(socket_fd), Goto("failed"), UNCHANGED <<sock_fd, socket_fd, bpf>>
      PROVE  SetupInv'
  BY <1>1, <1>2, <1>4, ClosingOwn
  DEF SetupInv, TypeOK, EverySocketIsOwned, ClosesOnlyItsOwn, HandleIsReady, Mine, Goto, InProgress,
      InGetDeviceSocket
<1> QED
  BY <1>3, <1>4 DEF Attach

LEMMA SetHandleStep ==
  ASSUME SetupInv, SetHandle
  PROVE  SetupInv'
<1>1. SourceInv'
  BY SourceStep DEF SetupStep
<1>2. /\ InProgress /\ pc = "setHandle" /\ alive /\ Named
      /\ socket_fd \in Fds /\ socket_fd # sock_fd /\ Mine(socket_fd)
      /\ Owned = (IF sock_fd # NoFd THEN {sock_fd} ELSE {}) \cup {socket_fd}
  BY DEF SetHandle, SetupInv, TypeOK, EverySocketIsOwned, Owned, InProgress, InGetDeviceSocket
<1>3. /\ sock_fd' = socket_fd /\ pc' = "idle" /\ CloseSocket
      /\ UNCHANGED <<socket_fd, settings, alive>> /\ UNCHANGED bpf
  BY DEF SetHandle, Goto
<1>4. /\ fds[socket_fd].bound /\ fds[socket_fd].filter # None
      /\ HasFunction(fds[socket_fd].filter)
  BY <1>2, NoneIsNoProgram, ProgramIsFiltered DEF SetupInv, SourceInv, InGetDeviceSocket
<1>5. /\ Owned' = {socket_fd} /\ badClose' = badClose
      /\ fds' \in [Fds -> {Closed, Other} \cup
                      [owner : {"engine"}, bound : BOOLEAN,
                       filter : Programs \cup {None}, queue : SUBSET Arrivals]]
      /\ fds'[socket_fd] = fds[socket_fd]
  <2>1. CASE sock_fd = NoFd
    BY <1>2, <1>3, <2>1 DEF CloseSocket, NoFd, SetupInv, TypeOK, Owned, Mine
  <2>2. CASE sock_fd # NoFd
    <3>1. sock_fd \in Fds /\ sock_fd >= 0 /\ Mine(sock_fd)
      BY <1>2, <2>2 DEF SetupInv, TypeOK, Owned, Fds
    <3>2. Close(sock_fd)
      BY <1>3, <3>1 DEF CloseSocket
    <3> QED
      BY <1>2, <3>1, <3>2, ClosingOwn DEF SetupInv
  <2> QED
    BY <2>1, <2>2
<1>6. Mine(socket_fd)'
  BY <1>2, <1>3, <1>5 DEF Mine
<1> QED
  BY <1>1, <1>2, <1>3, <1>4, <1>5, <1>6
  DEF SetupInv, TypeOK, EverySocketIsOwned, ClosesOnlyItsOwn, HandleIsReady, Mine, InProgress,
      InGetDeviceSocket

LEMMA FailStep ==
  ASSUME SetupInv, Fail
  PROVE  SetupInv'
<1>1. SourceInv'
  BY SourceStep DEF SetupStep
<1>2. Untouched /\ pc = "failed" /\ pc' = "idle" /\ UNCHANGED <<settings, alive>>
  BY DEF Fail, Goto
<1> QED
  BY <1>1, <1>2, QuietStep DEF SetupInv, InProgress, InGetDeviceSocket

LEMMA DestroyStep ==
  ASSUME SetupInv, Destroy
  PROVE  SetupInv'
<1>1. SourceInv'
  BY SourceStep
<1>2. /\ pc = "idle" /\ pc' = "idle" /\ alive /\ alive' = FALSE /\ CloseSocket
      /\ UNCHANGED <<sock_fd, socket_fd, settings>>
      /\ Owned = IF sock_fd # NoFd THEN {sock_fd} ELSE {}
  BY DEF Destroy, SetupInv, EverySocketIsOwned, InProgress, InGetDeviceSocket
<1>3. CASE sock_fd = NoFd
  <2>1. UNCHANGED <<fds, badClose>>
    BY <1>2, <1>3 DEF CloseSocket, NoFd
  <2> QED
    BY <1>1, <1>2, <1>3, <2>1
    DEF SetupInv, TypeOK, EverySocketIsOwned, ClosesOnlyItsOwn, HandleIsReady, Owned, Mine, InProgress,
        InGetDeviceSocket
<1>4. CASE sock_fd # NoFd
  <2>1. sock_fd \in Fds /\ sock_fd >= 0 /\ Mine(sock_fd)
    BY <1>2, <1>4 DEF SetupInv, TypeOK, Owned, Fds
  <2>2. Close(sock_fd)
    BY <1>2, <2>1 DEF CloseSocket
  <2>3. /\ Owned' = {} /\ badClose' = badClose
        /\ fds' \in [Fds -> {Closed, Other} \cup
                        [owner : {"engine"}, bound : BOOLEAN,
                         filter : Programs \cup {None}, queue : SUBSET Arrivals]]
    BY <1>2, <1>4, <2>1, <2>2, ClosingOwn DEF SetupInv
  <2> QED
    BY <1>1, <1>2, <2>3
    DEF SetupInv, TypeOK, EverySocketIsOwned, ClosesOnlyItsOwn, HandleIsReady, InProgress,
        InGetDeviceSocket
<1> QED
  BY <1>3, <1>4
-----------------------------------------------------------------------------
(* What the rest of the process and the kernel do leaves the engine's      *)
(* descriptors to the engine.                                              *)
LEMMA OutsideStep ==
  ASSUME SetupInv,
         UNCHANGED <<sock_fd, socket_fd, pc, settings, bpf, alive, badClose>>,
         fds' \in [Fds -> {Closed, Other} \cup
                     [owner : {"engine"}, bound : BOOLEAN,
                      filter : Programs \cup {None}, queue : SUBSET Arrivals]],
         \A f \in Fds : /\ Mine(f) <=> Mine(f)'
                        /\ Mine(f) => fds'[f].bound = fds[f].bound /\ fds'[f].filter = fds[f].filter
  PROVE  SetupInv'
<1>1. Owned' = Owned
  BY DEF Owned
<1>2. SourceInv'
  BY DEF SetupInv, SourceInv, bpf
<1>3. TypeOK' /\ EverySocketIsOwned' /\ ClosesOnlyItsOwn'
  BY <1>1 DEF SetupInv, TypeOK, EverySocketIsOwned, ClosesOnlyItsOwn, InProgress
<1>4. alive /\ sock_fd # NoFd => sock_fd \in Fds /\ Mine(sock_fd)
  BY DEF SetupInv, TypeOK, HandleIsReady
<1>5. HandleIsReady'
  BY <1>4 DEF SetupInv, HandleIsReady
<1>6. InProgress => socket_fd \in Fds /\ Mine(socket_fd)
  BY DEF SetupInv, TypeOK, EverySocketIsOwned, Owned
<1>7. /\ InProgress' => socket_fd' # NoFd /\ socket_fd' # sock_fd'
      /\ (pc \in {"setFlags", "attach", "setHandle"} => Named)'
      /\ (pc # "idle" => alive)'
  BY DEF SetupInv, Named, InProgress
<1>8. /\ (pc \in {"getFlags", "setFlags", "attach", "setHandle"} /\ Named => fds[socket_fd].bound)'
      /\ (pc = "setHandle" => fds[socket_fd].filter = program)'
  BY <1>6 DEF SetupInv, Named, InProgress, InGetDeviceSocket, bpf
<1> QED
  BY <1>2, <1>3, <1>5, <1>7, <1>8 DEF SetupInv

LEMMA OtherStep ==
  ASSUME SetupInv, OtherOpens \/ OtherCloses
  PROVE  SetupInv'
<1>1. PICK f \in Fds, new \in {Closed, Other} :
        fds[f] \in {Closed, Other} /\ fds' = [fds EXCEPT ![f] = new]
  BY DEF OtherOpens, OtherCloses, Free
<1>2. \A g \in Fds : fds'[g] = IF g = f THEN new ELSE fds[g]
  BY <1>1 DEF SetupInv, TypeOK
<1>3. UNCHANGED <<sock_fd, socket_fd, pc, settings, bpf, alive, badClose>>
  BY DEF OtherOpens, OtherCloses
<1>4. fds' \in [Fds -> {Closed, Other} \cup
                  [owner : {"engine"}, bound : BOOLEAN,
                   filter : Programs \cup {None}, queue : SUBSET Arrivals]]
  BY <1>1 DEF SetupInv, TypeOK
<1>5. \A g \in Fds : /\ Mine(g) <=> Mine(g)'
                     /\ Mine(g) => fds'[g].bound = fds[g].bound /\ fds'[g].filter = fds[g].filter
  BY <1>1, <1>2 DEF Mine, Closed, Other
<1> QED
  BY <1>3, <1>4, <1>5, OutsideStep

LEMMA FrameArrivesStep ==
  ASSUME SetupInv, NEW frame \in Arrivals, FrameArrives(frame)
  PROVE  SetupInv'
<1> DEFINE Sockets == [owner : {"engine"}, bound : BOOLEAN,
                       filter : Programs \cup {None}, queue : SUBSET Arrivals]
<1> DEFINE Queued(s) == [s EXCEPT !.queue = @ \cup {frame}]
<1>1. \A f \in Fds : fds'[f] = IF Takes(fds[f], frame) THEN Queued(fds[f]) ELSE fds[f]
  BY DEF FrameArrives
<1>2. \A s \in Sockets : /\ Queued(s) \in Sockets
                         /\ Queued(s).owner = s.owner /\ Queued(s).bound = s.bound
                         /\ Queued(s).filter = s.filter
  OBVIOUS
<1>3. \A f \in Fds : Takes(fds[f], frame) => fds[f] \in Sockets
  BY DEF SetupInv, TypeOK, Takes, Closed, Other
<1>4. \A f \in Fds : fds'[f] \in {Closed, Other} \cup Sockets
  <2> HIDE DEF Queued
  <2> QED
    BY <1>1, <1>2, <1>3 DEF SetupInv, TypeOK
<1>5. fds' \in [Fds -> {Closed, Other} \cup Sockets]
  BY <1>4 DEF FrameArrives
<1>6. \A f \in Fds : /\ Mine(f) <=> Mine(f)'
                     /\ Mine(f) => fds'[f].bound = fds[f].bound /\ fds'[f].filter = fds[f].filter
  <2> HIDE DEF Queued
  <2> QED
    BY <1>1, <1>2, <1>3 DEF Mine
<1>7. UNCHANGED <<sock_fd, socket_fd, pc, settings, bpf, alive, badClose>>
  BY DEF FrameArrives
<1> QED
  BY <1>5, <1>6, <1>7, OutsideStep
-----------------------------------------------------------------------------
(* The inductive invariant: whoever opens a socket closes it or hands it   *)
(* over, and a source is filtered once.                                    *)
THEOREM SetupIsInvariant == Spec => []SetupInv
<1>1. SetupInv /\ [Next]_vars => SetupInv'
  <2> SUFFICES ASSUME SetupInv, [Next]_vars
               PROVE  SetupInv'
    OBVIOUS
  <2>1. CASE SetupStep
    BY <2>1, CallSetupStep, LoadStep, OpenSocketStep, BindStep, FlagsStep, AttachStep, SetHandleStep,
       FailStep DEF SetupStep
  <2>2. CASE Destroy
    BY <2>2, DestroyStep
  <2>3. CASE OtherOpens \/ OtherCloses
    BY <2>3, OtherStep
  <2>4. ASSUME NEW frame \in Arrivals, FrameArrives(frame)
        PROVE  SetupInv'
    BY <2>4, FrameArrivesStep
  <2>5. CASE UNCHANGED vars
    BY <2>5, OutsideStep DEF vars, SetupInv, TypeOK, Mine
  <2> QED
    BY <2>1, <2>2, <2>3, <2>4, <2>5 DEF Next
<1> QED
  BY <1>1, InitInv, PTL DEF Spec

(* No descriptor leaks on any path of setup.                               *)
THEOREM OwnedTheorem == Spec => []EverySocketIsOwned
BY SetupIsInvariant, PTL DEF SetupInv

(* close is only called for a descriptor that is the engine's.             *)
THEOREM CloseTheorem == Spec => []ClosesOnlyItsOwn
BY SetupIsInvariant, PTL DEF SetupInv

(* The engine's socket is always bound to the interface and filtered.      *)
THEOREM ReadyTheorem == Spec => []HandleIsReady
BY SetupIsInvariant, PTL DEF SetupInv

(* What one step does to a socket's program: attach gives it the one that  *)
(* was compiled, nothing else changes it.                                  *)
LEMMA FilterStep ==
  ASSUME SetupInv, [Next]_vars, NEW f \in Fds, Mine(f)'
  PROVE  fds'[f].filter \in {None} \cup (IF Mine(f) THEN {fds[f].filter} ELSE {})
                             \cup (IF pc = "attach" /\ program' = program THEN {program} ELSE {})
<1> USE DEF SetupInv, TypeOK
<1>1. CASE UNCHANGED fds
  BY <1>1 DEF Mine
<1>2. ASSUME NEW g \in Fds, NEW new \in {Closed, Other}, fds' = [fds EXCEPT ![g] = new]
      PROVE  fds'[f] = fds[f] /\ Mine(f)
  BY <1>2 DEF Mine, Closed, Other
<1>3. CASE OpenSocket
  BY <1>1, <1>3 DEF OpenSocket, Mine
<1>4. InProgress => socket_fd \in Fds /\ Mine(socket_fd)
  BY DEF EverySocketIsOwned, Owned
<1>5. sock_fd >= 0 => sock_fd \in Fds
  BY DEF NoFd
<1>6. CASE Bind \/ GetFlags \/ SetFlags \/ Attach
  <2>1. socket_fd \in Fds /\ Mine(socket_fd)
    BY <1>4, <1>6 DEF Bind, GetFlags, SetFlags, Attach, GiveUp, InProgress, InGetDeviceSocket
  <2>2. CASE pc = "bind" /\ fds' = [fds EXCEPT ![socket_fd].bound = TRUE]
    BY <2>1, <2>2 DEF Mine, Closed, Other
  <2>3. CASE pc = "attach" /\ fds' = [fds EXCEPT ![socket_fd].filter = program] /\ program' = program
    BY <2>1, <2>3 DEF Mine, Closed, Other
  <2>4. CASE fds' = [fds EXCEPT ![socket_fd] = Closed]
    BY <1>2, <2>1, <2>4
  <2> QED
    BY <1>1, <1>6, <2>2, <2>3, <2>4
       DEF Bind, GetFlags, SetFlags, Attach, GiveUp, Close, Untouched, bpf
<1>7. CASE SetHandle \/ Destroy
  BY <1>1, <1>2, <1>5, <1>7 DEF SetHandle, Destroy, CloseSocket, Close
<1>8. CASE OtherOpens \/ OtherCloses
  BY <1>2, <1>8 DEF OtherOpens, OtherCloses
<1>9. ASSUME NEW frame \in Arrivals, FrameArrives(frame)
      PROVE  Mine(f) /\ fds'[f].filter = fds[f].filter
  <2>1. fds'[f] = IF Takes(fds[f], frame) THEN [fds[f] EXCEPT !.queue = @ \cup {frame}] ELSE fds[f]
    BY <1>9 DEF FrameArrives
  <2>2. Takes(fds[f], frame) => Mine(f)
    BY DEF Takes, Mine
  <2>3. fds[f] \in {Closed, Other} \cup [owner : {"engine"}, bound : BOOLEAN,
                                        filter : Programs \cup {None}, queue : SUBSET Arrivals]
    OBVIOUS
  <2> QED
    BY <2>1, <2>2, <2>3 DEF Mine, Closed, Other
<1>10. CASE UNCHANGED vars \/ (\E s \in Settings : CallSetup(s)) \/ Load \/ LoadFunc \/ Fail
  BY <1>1, <1>10 DEF vars, CallSetup, Load, LoadFunc, Fail, Untouched
<1> QED
  BY <1>3, <1>6, <1>7, <1>8, <1>9, <1>10 DEF Next, SetupStep

(* Every filter attached is the source as the first setup made it, and     *)
(* that is what its settings ask for.                                      *)
THEOREM SettingsTheorem == Spec => []SettingsAreNotMixed
<1>1. Init => SettingsAreNotMixed
  BY DEF Init, SettingsAreNotMixed, Mine, Closed
<1>2. SetupInv /\ SettingsAreNotMixed /\ [Next]_vars => SettingsAreNotMixed'
  <2> SUFFICES ASSUME SetupInv, SettingsAreNotMixed, [Next]_vars, NEW f \in Fds, Mine(f)'
               PROVE  fds'[f].filter \in {None} \cup ({source'} \cap Programs)
    BY DEF SettingsAreNotMixed
  <2>1. source \in Programs => source' = source
    <3>1. CASE \E s \in Settings : CallSetup(s)
      BY <3>1, FilteredStays, ProgramIsFiltered DEF CallSetup, SetupInv, SourceInv
    <3>2. CASE ~\E s \in Settings : CallSetup(s)
      BY <3>2 DEF Next, SetupStep, Load, LoadFunc, OpenSocket, Bind, GetFlags, SetFlags, Attach,
         SetHandle, Fail, Destroy, OtherOpens, OtherCloses, FrameArrives, GiveUp, bpf, vars
    <3> QED
      BY <3>1, <3>2
  <2>2. pc = "attach" => program \in Programs /\ program = source
    BY DEF SetupInv, SourceInv, InGetDeviceSocket
  <2>3. Mine(f) => fds[f].filter \in {None} \cup ({source} \cap Programs)
    BY DEF SettingsAreNotMixed
  <2> QED
    BY <2>1, <2>2, <2>3, FilterStep
<1> QED
  BY <1>1, <1>2, SetupIsInvariant, PTL DEF Spec
-----------------------------------------------------------------------------
(* What the BPF program finds in a frame.                                  *)
LEMMA ProgramSvID ==
  ASSUME NEW p \in Programs
  PROVE  p.svID \in Seq(1..127) /\ Len(p.svID) \in Nat \ {0} /\ p.svID[1] \in 1..127
<1>1. PICK s \in Settings : p = ProgramFor(s) /\ s.svID # <<>>
  BY DEF Programs
<1>2. p.svID = s.svID /\ s.svID \in Seq((1..127) \ {37})
  BY <1>1, SetupAssumption DEF ProgramFor
<1>3. Len(s.svID) \in Nat \ {0}
  BY <1>1, <1>2
<1>4. \A i \in 1..Len(s.svID) : s.svID[i] \in 1..127
  <2>1. \A i \in 1..Len(s.svID) : s.svID[i] \in (1..127) \ {37}
    BY <1>2, ElementOfSeq
  <2> QED BY <2>1
<1>5. s.svID \in Seq(1..127)
  BY <1>2, <1>4
<1> QED
  BY <1>2, <1>3, <1>4, <1>5

LEMMA FrameFacts ==
  ASSUME NEW frame \in Frames
  PROVE  /\ frame.svID \in Seq(1..127) /\ Len(frame.svID) \in 0..127
         /\ Len(frame.pdu) \in Nat
         /\ \A k \in 1..Len(frame.pdu) : frame.pdu[k] \in 0..255
<1>1. frame.pdu \in Seq(0..255)
  BY SetupAssumption
<1>2. frame.svID \in Seq(1..127) /\ Len(frame.svID) < 128
  BY SvFramesAssumption DEF FramesAssumption
<1>3. Len(frame.svID) \in Nat /\ Len(frame.pdu) \in Nat
  BY <1>1, <1>2
<1>4. \A k \in 1..Len(frame.pdu) : frame.pdu[k] \in 0..255
  BY <1>1, ElementOfSeq
<1>5. Len(frame.svID) \in 0..127
  <2> DEFINE idLength == Len(frame.svID)
  <2>1. idLength \in Nat /\ idLength < 128
    BY <1>2, <1>3
  <2> HIDE DEF idLength
  <2>2. idLength \in 0..127
    BY <2>1
  <2> QED BY <2>2 DEF idLength
<1> QED
  BY <1>2, <1>3, <1>4, <1>5

LEMMA WholeLength ==
  ASSUME NEW frame \in Frames, NEW n \in 0..2
  PROVE  Whole(frame, n) <=> 11 + 2 * n + Len(frame.svID) <= Len(frame.pdu)
<1> DEFINE idLength  == Len(frame.svID)
           pduLength == Len(frame.pdu)
<1>1. idLength \in Nat /\ pduLength \in Nat
  BY FrameFacts
<1>2. Whole(frame, n) <=> pduLength >= 7 + 2 * n + 4 + idLength
  BY DEF Whole, SvIdEnd, AsduAt
<1> HIDE DEF idLength, pduLength
<1>3. Whole(frame, n) <=> 11 + 2 * n + idLength <= pduLength
  BY <1>1, <1>2
<1> QED BY <1>3 DEF idLength, pduLength

(* A frame that is laid out and long enough to be looked at has the octets *)
(* that tell the layouts apart.                                            *)
LEMMA LayoutRecognised ==
  ASSUME NEW frame \in Frames, NEW n \in 0..2, Laid(frame, n), Loads(frame.pdu, 1)
  PROVE  /\ Is256p(frame.pdu) <=> n = 2
         /\ Is80p(frame.pdu) <=> n # 2
         /\ SvIdOffset(frame.pdu) = IF n = 2 THEN 15 ELSE 11
<1> DEFINE pdu == frame.pdu
<1>1. Len(pdu) \in Nat /\ 1 < Len(pdu) /\ 1 \in 1..Len(pdu) /\ 2 \in 1..Len(pdu)
  BY FrameFacts DEF Loads
<1>2. pdu[1] = 96 /\ pdu[2] \in 0..255 /\ (IF n = 0 THEN pdu[2] < 128 ELSE pdu[2] = 128 + n)
  BY <1>1, FrameFacts DEF Laid, SV_PDU_ID_80P
<1>3. Byte(pdu, 0) = pdu[1] /\ Byte(pdu, 1) = pdu[2]
  BY DEF Byte
<1>4. Is256p(pdu) <=> n = 2
  <2> HIDE DEF pdu
  <2> QED BY <1>2, <1>3 DEF Is256p, SV_PDU_ID_256P
<1>5. Is80p(pdu) <=> n # 2
  <2> HIDE DEF pdu
  <2> QED BY <1>2, <1>3, <1>4 DEF Is80p, SV_PDU_ID_80P
<1> QED
  BY <1>4, <1>5 DEF SvIdOffset

(* Where the svID is looked for in the right place, it is found if and     *)
(* only if it is there whole and the same.                                 *)
LEMMA SvIdFound ==
  ASSUME NEW frame \in Frames, NEW p \in Programs, NEW n \in {0, 2}, Laid(frame, n),
         Loads(frame.pdu, AsduAt(n) + 3)
  PROVE  SvIdCmp(frame.pdu, AsduAt(n) + 4, Byte(frame.pdu, AsduAt(n) + 3), p.svID)
           <=> Whole(frame, n) /\ p.svID = frame.svID
<1> DEFINE pdu == frame.pdu
           at  == AsduAt(n) + 4
           id  == frame.svID
           own == p.svID
<1>1. /\ Len(pdu) \in Nat /\ at \in {11, 15} /\ at - 1 < Len(pdu)
      /\ id \in Seq(1..127) /\ Len(id) \in 0..127 /\ own \in Seq(1..127) /\ Len(own) \in Nat \ {0}
  BY FrameFacts, ProgramSvID DEF Loads, AsduAt
<1>2. pdu[at] = Len(id) /\ Byte(pdu, at - 1) = pdu[at] /\ at - 1 = AsduAt(n) + 3
  <2>1. at \in 1..Len(pdu)
    BY <1>1
  <2>2. pdu[at] = Len(id)
    BY <2>1 DEF Laid
  <2>3. at - 1 = AsduAt(n) + 3 /\ (at - 1) + 1 = at
    BY DEF AsduAt
  <2> QED BY <2>2, <2>3 DEF Byte
<1>3. \A i \in 1..Len(id) : at + i <= Len(pdu) => pdu[at + i] = id[i]
  <2> SUFFICES ASSUME NEW i \in 1..Len(id), at + i <= Len(pdu)
               PROVE  pdu[at + i] = id[i]
    OBVIOUS
  <2> DEFINE k == at + i
  <2>1. k \in 1..Len(pdu) /\ k \in (at + 1)..(at + Len(id)) /\ k - at = i
    BY <1>1
  <2>2. AsduAt(n) + 5 = at + 1 /\ SvIdEnd(n, id) = at + Len(id)
    BY DEF AsduAt, SvIdEnd
  <2>3. k \in (AsduAt(n) + 5)..SvIdEnd(n, id)
    BY <2>1, <2>2
  <2>4. pdu[k] = id[k - at]
    BY <2>1, <2>3 DEF Laid
  <2> QED BY <2>1, <2>4
<1>4. \A i \in Nat \ {0} : /\ Loads(pdu, at + i - 1) <=> at + i <= Len(pdu)
                           /\ Byte(pdu, at + i - 1) = pdu[at + i]
  <2> SUFFICES ASSUME NEW i \in Nat \ {0}
               PROVE  /\ Loads(pdu, at + i - 1) <=> at + i <= Len(pdu)
                      /\ Byte(pdu, at + i - 1) = pdu[at + i]
    OBVIOUS
  <2> HIDE DEF at, pdu
  <2>1. (at + i - 1) + 1 = at + i /\ (at + i - 1 < Len(pdu) <=> at + i <= Len(pdu))
    BY <1>1
  <2> QED BY <2>1 DEF Loads, Byte
<1>5. Whole(frame, n) <=> at + Len(id) <= Len(pdu)
  BY <1>1 DEF Whole, SvIdEnd
<1>6. SvIdCmp(pdu, at, Len(id), own)
        <=> /\ Len(own) = Len(id)
            /\ \A i \in 1..Len(own) : at + i <= Len(pdu) /\ pdu[at + i] = own[i]
  <2>1. SvIdCmp(pdu, at, Len(id), own)
          <=> /\ Len(own) = Len(id)
              /\ \A i \in 1..Len(own) : Loads(pdu, at + i - 1) /\ Byte(pdu, at + i - 1) = own[i]
    BY DEF SvIdCmp
  <2>2. \A i \in 1..Len(own) : i \in Nat \ {0}
    BY <1>1
  <2> HIDE DEF pdu, at, id, own
  <2> QED BY <1>4, <2>1, <2>2, Zenon
<1>7. ASSUME SvIdCmp(pdu, at, Len(id), own)
      PROVE  Whole(frame, n) /\ own = id
  <2> HIDE DEF pdu, at, id, own
  <2>1. Len(own) \in 1..Len(own) /\ Len(own) = Len(id)
    BY <1>1, <1>6, <1>7
  <2>2. at + Len(id) <= Len(pdu)
    BY <1>6, <1>7, <2>1
  <2>3. \A i \in 1..Len(own) : own[i] = id[i]
    BY <1>3, <1>6, <1>7
  <2>4. own = id
    BY <1>1, <2>1, <2>3, SeqEqual
  <2> QED BY <1>5, <2>2, <2>4
<1>8. ASSUME Whole(frame, n), own = id
      PROVE  SvIdCmp(pdu, at, Len(id), own)
  <2> HIDE DEF pdu, at, id, own
  <2>1. \A i \in 1..Len(own) : at + i <= Len(pdu)
    BY <1>1, <1>5, <1>8
  <2> QED BY <1>3, <1>6, <1>8, <2>1
<1> QED
  BY <1>2, <1>7, <1>8

(* Where it is looked for in the wrong place, there is the tag of the svID *)
(* instead, and no svID begins with that.                                  *)
LEMMA NoSvIdInTwo ==
  ASSUME NEW frame \in Frames, NEW p \in Programs, Laid(frame, 1), NEW length
  PROVE  ~SvIdCmp(frame.pdu, 11, length, p.svID)
<1> SUFFICES ASSUME SvIdCmp(frame.pdu, 11, length, p.svID)
             PROVE  FALSE
  OBVIOUS
<1>1. 1 \in 1..Len(p.svID) /\ p.svID[1] \in 1..127
  BY ProgramSvID
<1>2. Loads(frame.pdu, 11 + 1 - 1) /\ Byte(frame.pdu, 11 + 1 - 1) = p.svID[1]
  BY <1>1 DEF SvIdCmp
<1>3. 12 \in 1..Len(frame.pdu) /\ frame.pdu[12] = p.svID[1]
  BY <1>2, FrameFacts DEF Loads, Byte
<1>4. AsduAt(1) + 3 = 12
  BY DEF AsduAt
<1>5. frame.pdu[12] = 128
  BY <1>3, <1>4 DEF Laid
<1> QED
  BY <1>1, <1>3, <1>5

LEMMA KeepsLaid ==
  ASSUME NEW frame \in Frames, NEW p \in Programs, NEW n \in 0..2, Laid(frame, n)
  PROVE  Keeps(p, frame) <=> /\ HeaderPasses(p, frame)
                             /\ n # 1 /\ Whole(frame, n) /\ p.svID = frame.svID
<1> DEFINE pdu == frame.pdu
<1>1. Len(pdu) \in Nat /\ Len(frame.svID) \in Nat
  BY FrameFacts
<1>2. CASE ~Loads(pdu, 1)
  <2>1. Len(pdu) <= 1
    BY <1>1, <1>2 DEF Loads
  <2>2. ~(11 + 2 * n + Len(frame.svID) <= Len(pdu))
    <3> DEFINE idLength  == Len(frame.svID)
               pduLength == Len(pdu)
    <3>1. idLength \in Nat /\ pduLength \in Nat /\ pduLength <= 1
      BY <1>1, <2>1
    <3> HIDE DEF idLength, pduLength
    <3>2. ~(11 + 2 * n + idLength <= pduLength)
      BY <3>1
    <3> QED BY <3>2 DEF idLength, pduLength
  <2>3. ~Whole(frame, n)
    BY <2>2, WholeLength
  <2> QED BY <1>2, <2>3 DEF Keeps
<1>3. CASE Loads(pdu, 1) /\ n = 1
  <2>1. SvIdOffset(pdu) = 11
    BY <1>3, LayoutRecognised
  <2> QED BY <1>3, <2>1, NoSvIdInTwo DEF Keeps
<1>4. CASE Loads(pdu, 1) /\ n # 1
  <2>1. n \in {0, 2}
    BY <1>4
  <2>2. (Is256p(pdu) \/ Is80p(pdu)) /\ SvIdOffset(pdu) = IF n = 2 THEN 15 ELSE 11
    BY <1>4, LayoutRecognised
  <2>3. SvIdOffset(pdu) = AsduAt(n) + 4 /\ SvIdOffset(pdu) - 1 = AsduAt(n) + 3
    BY <2>1, <2>2 DEF AsduAt
  <2>4. Keeps(p, frame)
          <=> /\ HeaderPasses(p, frame)
              /\ Loads(pdu, AsduAt(n) + 3)
              /\ SvIdCmp(pdu, AsduAt(n) + 4, Byte(pdu, AsduAt(n) + 3), p.svID)
    BY <1>4, <2>2, <2>3 DEF Keeps
  <2>5. CASE Loads(pdu, AsduAt(n) + 3)
    BY <1>4, <2>1, <2>4, <2>5, SvIdFound
  <2>6. CASE ~Loads(pdu, AsduAt(n) + 3)
    <3> DEFINE idLength  == Len(frame.svID)
               pduLength == Len(pdu)
    <3>1. idLength \in Nat /\ pduLength \in Nat /\ pduLength <= 10 + 2 * n
      BY <1>1, <2>1, <2>6 DEF Loads, AsduAt
    <3> HIDE DEF idLength, pduLength
    <3>2. ~(11 + 2 * n + idLength <= pduLength)
      BY <3>1
    <3>3. ~Whole(frame, n)
      BY <3>2, WholeLength DEF idLength, pduLength
    <3> QED BY <2>4, <2>6, <3>3
  <2> QED BY <2>5, <2>6
<1> QED
  BY <1>2, <1>3, <1>4

LEMMA KeepsWanted ==
  ASSUME NEW frame \in Frames, NEW p \in Programs
  PROVE  Keeps(p, frame) <=> Wanted(p, frame)
<1>1. CASE /\ frame.layout \in {"80p", "two", "256p"} /\ frame.type = SV_ETHERTYPE
           /\ Laid(frame, LongForm(frame.layout)) /\ Whole(frame, LongForm(frame.layout))
  <2> DEFINE n == LongForm(frame.layout)
  <2>1. n \in 0..2 /\ (n # 1 <=> frame.layout \in {"80p", "256p"})
    BY <1>1 DEF LongForm
  <2>2. HeaderPasses(p, frame) <=> frame.src = p.srcMac /\ frame.src # p.ifaceMac
    BY <1>1 DEF HeaderPasses
  <2> HIDE DEF n
  <2>3. Laid(frame, n) /\ Whole(frame, n)
    BY <1>1 DEF n
  <2>4. Keeps(p, frame) <=> HeaderPasses(p, frame) /\ n # 1 /\ p.svID = frame.svID
    BY <2>1, <2>3, KeepsLaid
  <2> QED BY <2>1, <2>2, <2>4 DEF Wanted
<1>2. CASE frame.layout = "cut" /\ \E n \in 0..2 : Laid(frame, n) /\ ~Whole(frame, n)
  BY <1>2, KeepsLaid DEF Wanted
<1>3. CASE frame.layout = "tagged" /\ (frame.pdu # <<>> => frame.pdu[1] \in {0, 128})
  <2>1. ~Wanted(p, frame)
    BY <1>3 DEF Wanted
  <2> SUFFICES ASSUME Keeps(p, frame)
               PROVE  FALSE
    BY <2>1
  <2>2. Len(frame.pdu) \in Nat /\ 1 < Len(frame.pdu)
    BY FrameFacts DEF Keeps, Loads
  <2>3. frame.pdu # <<>> /\ 1 \in 1..Len(frame.pdu) /\ 2 \in 1..Len(frame.pdu)
    BY <2>2
  <2>4. Byte(frame.pdu, 0) \in {0, 128} /\ Byte(frame.pdu, 1) \in 0..255
    BY <1>3, <2>3, FrameFacts DEF Byte
  <2>5. ~Is256p(frame.pdu) /\ ~Is80p(frame.pdu)
    BY <2>4 DEF Is256p, Is80p, SV_PDU_ID_256P, SV_PDU_ID_80P
  <2> QED BY <2>5 DEF Keeps
<1>4. CASE frame.layout = "IP" /\ frame.type \notin {IEC_PROTO, SV_ETHERTYPE}
  BY <1>4 DEF Wanted, Keeps, HeaderPasses
<1> QED
  BY <1>1, <1>2, <1>3, <1>4, SvFramesAssumption DEF FramesAssumption

(* Whatever the layout of the frames, their svID and where they are cut    *)
(* off: the program attached keeps exactly those its settings ask for.     *)
THEOREM FilterTheorem == Spec => []KeepsTheStream
<1>1. SetupInv => KeepsTheStream
  <2> SUFFICES ASSUME SetupInv, pc = "setHandle", NEW frame \in Frames
               PROVE  Keeps(program, frame) <=> Wanted(program, frame)
    BY DEF KeepsTheStream
  <2>1. program \in Programs
    BY DEF SetupInv, SourceInv, InGetDeviceSocket
  <2> QED BY <2>1, KeepsWanted
<1> QED
  BY <1>1, SetupIsInvariant, PTL
=============================================================================
