--------------------------- MODULE MCBootManager ---------------------------
EXTENDS BootManager

File(fv, file) == [fv |-> fv, file |-> file]

Image(fv, shell) ==
  [files |-> {File(fv, shell), File(fv, "menu")},
   shell |-> File(fv, shell), menu |-> File(fv, "menu")]

\* The shell gets a new FILE_GUID in the same volume, and then a new volume.
MCFirmwares == {Image("main", "shell"), Image("main", "shell2"), Image("main2", "shell2")}
TwoVolumes  == {Image("main", "shell"), Image("main2", "shell")}

Disk == {File("none", "disk")}

Bridge == [kind |-> "bridge", name |-> "bridge", virtio |-> "no"]

Pci(name, virtio, display, vendor, device, revision, subsystem) ==
  [kind |-> "pci", name |-> name, bridge |-> "bridge", virtio |-> virtio,
   display |-> display, path |-> TRUE, readable |-> TRUE,
   VendorId |-> vendor, DeviceId |-> device, RevisionId |-> revision,
   SubsystemId |-> subsystem]

\* How virtio devices of a type describe themselves: modern ones by their device
\* id, transitional ones by their subsystem.
Modern(name, virtio, type) ==
  Pci(name, virtio, FALSE, VIRTIO_VENDOR_ID, 4160 + type, 1, 64)
Transitional(name, virtio, type, device) ==
  Pci(name, virtio, FALSE, VIRTIO_VENDOR_ID, device, 0, type)

Mmio(name, virtio, type) ==
  [kind |-> "mmio", name |-> name, virtio |-> virtio, display |-> FALSE,
   path |-> TRUE, SubSystemDeviceId |-> type]

FrameBuffer(name, path) ==
  [kind |-> "framebuffer", name |-> name, virtio |-> "no", display |-> TRUE, path |-> path]

MCHandles ==
  {Bridge,
   Pci("gpu", "other", TRUE, VIRTIO_VENDOR_ID, 4176, 1, 64),
   [Pci("broken", "no", FALSE, 4660, 1, 0, 0) EXCEPT !.readable = FALSE],
   FrameBuffer("simplefb", TRUE), FrameBuffer("virtual", FALSE),
   Modern("rng", "entropy", 4), Modern("disk", "other", 2),
   Transitional("rng0", "entropy", 4, 4101), Transitional("disk0", "other", 2, 4097),
   Mmio("mmiorng", "entropy", 4), Mmio("mmionet", "other", 1)}

=============================================================================
