------------------------------ MODULE SimpleFb ------------------------------
(***************************************************************************)
(* The frame buffer driver (SimpleFbDxe): what it accepts of the           *)
(* simple-framebuffer node of the device tree, and the mode it publishes.  *)
(* A word of 32 bits is a cell of the tree.                                *)
(***************************************************************************)
EXTENDS UemuFdt

CONSTANT FB_BYTES_PER_PIXEL

ASSUME FbAssumption == FB_BYTES_PER_PIXEL \in Nat \ {0}

MAX_UINT32 == CELL - 1

Format == <<"x8r8g8b8", NUL>>

\* The properties width, height and stride, in the order they are read.
Geometry(node) ==
  LET width  == UemuFdtGetU32(node.width)
      height == UemuFdtGetU32(node.height)
      stride == UemuFdtGetU32(node.stride)
      format == UemuFdtGetString(node.format)
  IN  IF width.status # "SUCCESS" THEN width
      ELSE IF height.status # "SUCCESS" THEN height
      ELSE IF stride.status # "SUCCESS" THEN stride
      ELSE IF format.status # "SUCCESS" THEN format
      ELSE [status |-> "SUCCESS", width |-> width.value, height |-> height.value,
            stride |-> stride.value, format |-> format.value]

\* Faulty form: the width is not checked before it is multiplied in 32 bits.
IsTooNarrowWrapped(width, stride) ==
  stride = 0 \/ stride < (width * FB_BYTES_PER_PIXEL) % CELL

\* A scan line does not hold its pixels.  The width is checked first, so that
\* the product fits in 32 bits; as it is not 0, neither is a stride that passes.
IsTooNarrow(width, stride) ==
  width > MAX_UINT32 \div FB_BYTES_PER_PIXEL \/ stride < width * FB_BYTES_PER_PIXEL

IsCompromised(g) ==
  \/ g.width = 0 \/ g.height = 0
  \/ g.stride % FB_BYTES_PER_PIXEL # 0
  \/ IsTooNarrow(g.width, g.stride)
  \/ g.height > MAX_UINT64 \div g.stride
  \/ g.format # Format

GetSimpleFrameBuffer(tree, end) ==
  LET found == UemuFdtFindCompatibleNode(tree, end, "simple-framebuffer")
      node  == tree[found.node]
      reg   == UemuFdtGetReg(node, 0)
      g     == Geometry(node)
  IN  IF found.status # "SUCCESS" THEN found
      ELSE IF reg.status # "SUCCESS" THEN reg
      ELSE IF g.status # "SUCCESS" THEN g
      ELSE IF IsCompromised(g) THEN Failure("COMPROMISED_DATA")
      ELSE IF g.stride * g.height > reg.size THEN Failure("BAD_BUFFER_SIZE")
      ELSE [status |-> "SUCCESS", base |-> reg.base, size |-> reg.size,
            width |-> g.width, height |-> g.height, stride |-> g.stride]

\* SimpleFbDxeInitialize: the mode, the bytes it clears (FrameBufferSize of
\* them), and the pages whose memory attributes it sets if there are any.
SimpleFbDxeInitialize(tree, end) ==
  LET fb == GetSimpleFrameBuffer(tree, end)
  IN  IF fb.status # "SUCCESS" THEN fb
      ELSE [status               |-> "SUCCESS",
            HorizontalResolution |-> fb.width,
            VerticalResolution   |-> fb.height,
            PixelsPerScanLine    |-> fb.stride \div FB_BYTES_PER_PIXEL,
            FrameBufferBase      |-> fb.base,
            FrameBufferSize      |-> fb.stride * fb.height,
            attributes           |-> UemuFdtAlignRange(fb.base, fb.size)]

=============================================================================
