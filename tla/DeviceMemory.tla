---------------------------- MODULE DeviceMemory ----------------------------
(***************************************************************************)
(* What becomes of the device pages: the start-up library reports some of  *)
(* them, each driver claims those of its device when it is dispatched, in  *)
(* any order, and the clock's are the only ones that are used after the    *)
(* operating system has mapped the runtime services to virtual addresses   *)
(* (GoldfishRealTimeClockLib).  The memory services (GCD) are modelled as  *)
(* the drivers see them: a page is there or not, with what it can be and   *)
(* what it is set to.                                                      *)
(***************************************************************************)
EXTENDS PlatformSec

CONSTANTS
  MinSize,      \* the drivers' devices, and the bytes of registers they need
  VIRTUAL       \* the operating system maps runtime pages this far up

Drivers == DOMAIN MinSize
Rtc == "google,goldfish-rtc"

ASSUME DriversAssumption ==
  /\ Rtc \in Drivers /\ \A d \in Drivers : MinSize[d] \in Nat
  /\ VIRTUAL > MAX_UINT64

VARIABLES
  gcd,              \* pages that exist, with their capabilities and attributes
  dispatched,       \* drivers whose entry point has run
  started,          \* those of them that have accepted their device
  mode,             \* "sec", "boot" or "virtual"
  mRtcRegisterBase  \* where LibGetTime and LibSetTime access the clock

dxeVars == <<gcd, dispatched, started, mode, mRtcRegisterBase>>
vars == <<secVars, dxeVars>>

Init ==
  /\ SecInit
  /\ gcd = [p \in {} |-> 0]
  /\ dispatched = {} /\ started = {}
  /\ mode = "sec"
  /\ mRtcRegisterBase = 0

-----------------------------------------------------------------------------
PagesOf(base, size) == (base \div PAGE) .. ((base + size - 1) \div PAGE)

Exists(map, p) == p \in DOMAIN map

\* What AddMemorySpace leaves: pages are added all or none.  Memory-mapped I/O
\* is always capable of runtime use.
Added(map, pages, capabilities) ==
  [p \in DOMAIN map \cup pages |->
     IF p \in DOMAIN map THEN map[p]
     ELSE [capabilities |-> capabilities \cup {"RUNTIME"}, attributes |-> {}]]

AddMemorySpaceFails(map, pages) == \E p \in pages : Exists(map, p)

AfterAdd(map, pages, capabilities) ==
  IF AddMemorySpaceFails(map, pages) THEN map ELSE Added(map, pages, capabilities)

SetAttributesFails(map, pages, attributes) ==
  \E p \in pages : ~Exists(map, p) \/ ~(attributes \subseteq map[p].capabilities)

AfterSet(map, pages, attributes) ==
  IF SetAttributesFails(map, pages, attributes)
  THEN map
  ELSE [p \in DOMAIN map |->
          IF p \in pages THEN [map[p] EXCEPT !.attributes = attributes] ELSE map[p]]

\* The DXE core adds the I/O pages of the HOBs.
AfterHob(map, hob) ==
  IF hob.type = "MemoryMappedIO" THEN AfterAdd(map, PagesOf(hob.base, hob.size), {"UC"})
  ELSE map

AfterHobs(map) ==
  LET after[i \in 0 .. Len(hobs)] == IF i = 0 THEN map ELSE AfterHob(after[i - 1], hobs[i])
  IN  after[Len(hobs)]

StartDxe ==
  /\ secPc = "done" /\ mode = "sec"
  /\ mode' = "boot"
  /\ gcd' = AfterHobs(gcd)
  /\ UNCHANGED <<secVars, dispatched, started, mRtcRegisterBase>>

\* There is a tree to look into.
UemuFdtGet == FdtHob \in ToSet(hobs)

\* The discovery of a driver's device.
Device(d) ==
  IF UemuFdtGet
  THEN DiscoverMmioRange(tree.nodes, tree.end, d, MinSize[d])
  ELSE Failure("NOT_FOUND")

DevicePages(d) == PagesOf(Device(d).gcdBase, Device(d).gcdSize)

Dispatch(d) ==
  /\ mode = "boot"
  /\ d \in Drivers \ dispatched
  /\ dispatched' = dispatched \cup {d}
  /\ UNCHANGED <<secVars, mode>>

\* Faulty form: pages that another driver has added are an error.
GivesUpOnAdd(d) == AddMemorySpaceFails(gcd, DevicePages(d))

\* The keyboard, random number and battery drivers only warn when the pages
\* "may already exist".
GivesUp(d) == FALSE

ClaimDevice(d) ==
  /\ Dispatch(d) /\ d # Rtc
  /\ LET added == AfterAdd(gcd, DevicePages(d), {"UC", "RUNTIME"})
     IN  IF Device(d).status # "SUCCESS" \/ GivesUp(d)
         THEN UNCHANGED <<gcd, started>>
         ELSE /\ gcd' = AfterSet(added, DevicePages(d), {"UC"})
              /\ started' = IF SetAttributesFails(added, DevicePages(d), {"UC"})
                            THEN started ELSE started \cup {d}
  /\ UNCHANGED mRtcRegisterBase

\* Faulty form: the attributes that the other drivers set.
RtcAttributesLikeOthers == {"UC", "XP"}

RtcAttributes == {"UC", "RUNTIME", "XP"}

\* GetGoldfishRtcBase sets the base before the pages are computed.
GetGoldfishRtcBase ==
  LET node == UemuFdtFindCompatibleNode(tree.nodes, tree.end, Rtc)
      reg  == UemuFdtGetReg(tree.nodes[node.node], 0)
  IN  IF UemuFdtGet /\ node.status = "SUCCESS" /\ reg.status = "SUCCESS"
           /\ reg.size >= MinSize[Rtc]
      THEN reg.base ELSE mRtcRegisterBase

\* LibRtcInitialize returns every failure, the last one that of CreateEventEx.
LibRtcInitialize ==
  /\ Dispatch(Rtc)
  /\ mRtcRegisterBase' = GetGoldfishRtcBase
  /\ IF Device(Rtc).status # "SUCCESS" \/ AddMemorySpaceFails(gcd, DevicePages(Rtc))
     THEN UNCHANGED <<gcd, started>>
     ELSE /\ gcd' = AfterSet(Added(gcd, DevicePages(Rtc), RtcAttributes),
                             DevicePages(Rtc), RtcAttributes)
          /\ started' \in {started, started \cup {Rtc}}

\* SetVirtualAddressMap signals VirtualNotifyEvent, where EfiConvertPointer
\* moves an address in a page of the runtime and leaves any other as it is.
SetVirtualAddressMap ==
  /\ mode = "boot" /\ dispatched = Drivers
  /\ mode' = "virtual"
  /\ LET page == mRtcRegisterBase \div PAGE
     IN  mRtcRegisterBase' =
           IF Rtc \in started /\ Exists(gcd, page) /\ "RUNTIME" \in gcd[page].attributes
           THEN mRtcRegisterBase + VIRTUAL ELSE mRtcRegisterBase
  /\ UNCHANGED <<secVars, gcd, dispatched, started>>

Next ==
  \/ SecPlatformMain /\ UNCHANGED dxeVars
  \/ StartDxe
  \/ \E d \in Drivers : ClaimDevice(d)
  \/ LibRtcInitialize
  \/ SetVirtualAddressMap

\* The start-up code runs on.
Spec == Init /\ [][Next]_vars /\ WF_secVars(SecPlatformMain)

-----------------------------------------------------------------------------
HobPages == UNION {PagesOf(hobs[i].base, hobs[i].size) :
                     i \in {j \in DOMAIN hobs : hobs[j].type = "MemoryMappedIO"}}

Found == {d \in Drivers : Device(d).status = "SUCCESS"}

\* The pages of a device that some other device or HOB has too.
SharedPages(d) ==
  DevicePages(d) \cap (HobPages \cup UNION {DevicePages(e) : e \in Found \ {d}})

\* Whatever the order of dispatch, a driver whose pages are its own starts, and so
\* does a keyboard, random number or battery driver that has a single page; the
\* clock of an own page is where the operating system has mapped it to, and it has
\* mapped all of its registers.
DevicesReachable ==
  /\ dispatched = Drivers =>
       \A d \in Found \ {Rtc} :
         SharedPages(d) = {} \/ Cardinality(DevicePages(d)) = 1 =>
           d \in started /\ \A p \in DevicePages(d) : "UC" \in gcd[p].attributes
  /\ mode = "virtual" /\ Rtc \in started /\ SharedPages(Rtc) = {} =>
       /\ mRtcRegisterBase = Device(Rtc).base + VIRTUAL
       /\ \A p \in DevicePages(Rtc) : "RUNTIME" \in gcd[p].attributes

=============================================================================
