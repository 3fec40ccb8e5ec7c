--------------------------- MODULE MCDeviceMemory ---------------------------
EXTENDS DeviceMemory, TLC

Disabled == <<"disabled", NUL>>

Plain(names, reg) ==
  [compatible |-> names, status |-> Absent, reg |-> reg, addressCells |-> 1, sizeCells |-> 1,
   isMemory |-> FALSE, isReserved |-> FALSE, noMap |-> FALSE]

Memory(reg) == [Plain({}, reg) EXCEPT !.isMemory = TRUE]
Reserved(reg, noMap) == [Plain({}, reg) EXCEPT !.isReserved = TRUE, !.noMap = noMap]

\* One node of two ranges, and two nodes, the first of which has a bad range.
Memories == {<<Memory(<<0, 2, 4, 3>>)>>, <<Memory(<<0, 2, 1, 0, 2, 4>>), Memory(<<6, 2>>)>>}

Reservations ==
  {<<>>, <<Reserved(<<1, 1, 5, 1>>, TRUE), Reserved(<<0, 1, 5, 1>>, FALSE)>>,
   <<Reserved(Absent, TRUE), Reserved(<<1, 1, 2, 0>>, TRUE), Reserved(<<5, 2>>, TRUE)>>}

\* A disabled device that start-up reports anyway, one that crosses a page, one
\* without registers, one at the end of the address space.
IoNodes ==
  {<<>>, <<[Plain({"ns16550a"}, <<9, 2>>) EXCEPT !.status = Disabled],
           Plain({"virtio,mmio"}, <<14, 4>>), Plain({"virtio,mmio"}, <<12, 0>>),
           Plain({"simple-framebuffer"}, <<13, 2>>)>>,
   <<Plain({"virtio,mmio"}, Absent),
     [Plain({"ns16550a"}, <<15, 12, 2>>) EXCEPT !.addressCells = 2]>>}

MCMinSize ==
  ("google,goldfish-rtc" :> 2) @@ ("keyboard" :> 1) @@ ("rng" :> 2) @@ ("battery" :> 2)

\* Each device with its own page; all in one page; a range that the clock or the
\* keyboard shares in part; a device whose first node is disabled.
Devices ==
  {<<Plain({Rtc}, <<8, 4>>), Plain({"keyboard"}, <<5, 2>>), Plain({"rng"}, <<1, 2>>)>>,
   <<Plain({Rtc}, <<8, 2>>), Plain({"keyboard"}, <<10, 1>>), Plain({"rng"}, <<10, 2>>),
     Plain({"battery"}, <<9, 2>>)>>,
   <<Plain({Rtc}, <<4, 4>>), Plain({"keyboard"}, <<7, 4>>), Plain({"battery"}, <<9, 2>>)>>,
   <<[Plain({"rng"}, <<4, 4>>) EXCEPT !.status = Disabled], Plain({"rng"}, <<8, 8>>),
     Plain({Rtc}, <<3, 4>>)>>}

Entry(base, size) == [base |-> base, size |-> size]

ReserveMaps == {<<>>, <<Entry(3, 0), Entry(250, 10), Entry(2, 3)>>}

NodeLists == {m \o r \o i \o d : m \in Memories, r \in Reservations, i \in IoNodes, d \in Devices}

MCTrees ==
  {[header |-> TRUE, end |-> e, reserveMap |-> r, nodes |-> n] :
     e \in {"NOTFOUND", "BADSTRUCTURE"}, r \in ReserveMaps, n \in NodeLists}
  \cup {[header |-> FALSE, end |-> "NOTFOUND", reserveMap |-> <<>>, nodes |-> <<>>]}

=============================================================================
