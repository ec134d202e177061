--------------------------- MODULE ReceiverRoute ---------------------------
(***************************************************************************)
(* How a desktop receiver turns a configuration into video pipelines       *)
(* (apps/desktop/src/pipeline.rs and gpu.rs): the GPU it settles on, the   *)
(* decoder and the sink of each route, the memory the frames stay in       *)
(* between them, the routes kept in reserve, and the largest frame the     *)
(* first decoder takes, which the receiver announces.                      *)
(*                                                                         *)
(* A computer pc is a record: adapters (DXGI order), screens, decoders (for*)
(* each family the registered elements, the base one first), software and  *)
(* sinks (the factories that exist), decodebin, fec.  An adapter's         *)
(* description is the set of its words.  Every failure is None.            *)
(***************************************************************************)
EXTENDS Naturals, Sequences

CONSTANT None

\* The first element that passes a test.
Found(seq, hits) ==
  IF hits = {} THEN None ELSE seq[CHOOSE i \in hits : \A j \in hits : i <= j]
First(seq, Test(_)) == Found(seq, {i \in DOMAIN seq : Test(seq[i])})
Or(a, b) == IF a # None THEN a ELSE b

(***************************************************************************)
(* gpu.rs.  A selection is None ("auto") or the number and the words the   *)
(* user wrote: an index, a whole description, a part of one, in this order.*)
(***************************************************************************)
Resolve(pc, selection) ==
  IF selection = None THEN None
  ELSE Or(First(pc.adapters, LAMBDA a : a.index = selection.number),
       Or(First(pc.adapters, LAMBDA a : a.words = selection.words),
          First(pc.adapters, LAMBDA a : selection.words \subseteq a.words)))

AdapterOf(pc, screen) ==
  IF screen = None THEN None
  ELSE First(pc.adapters, LAMBDA a : a.luid = screen.adapter)

ResolveReceiver(pc, selection) ==
  IF selection # None THEN Resolve(pc, selection)
  ELSE AdapterOf(pc, Or(First(pc.screens, LAMBDA s : s.attached /\ s.primary),
                        First(pc.screens, LAMBDA s : s.attached)))

\* Mutant: the adapter is there, and nobody counts the others.
IsAdapter(pc, gpu) == \E i \in DOMAIN pc.adapters : pc.adapters[i].luid = gpu.luid

OnlyAdapter(pc, gpu) ==
  Len(pc.adapters) = 1 /\ pc.adapters[1].luid = gpu.luid

OnlyOfVendor(pc, gpu) ==
  LET same == {i \in DOMAIN pc.adapters : pc.adapters[i].vendor = gpu.vendor}
  IN \E i \in same : same = {i} /\ pc.adapters[i].luid = gpu.luid

(***************************************************************************)
(* Decoders.  An element has the adapter it names (luid, None: none), the  *)
(* one it runs on, the memories its source pad supports and the frame      *)
(* sizes its H.264 sink caps bound.                                        *)
(***************************************************************************)
Opened(element, preferred) ==
  [device |-> element.device, caps |-> element.caps,
   memory |-> IF preferred \in element.memory THEN preferred ELSE "negotiated"]

Base(pc, family) ==
  IF pc.decoders[family] = << >> THEN None ELSE pc.decoders[family][1]

FamilyDecoder(pc, family, gpu, preferred) ==
  LET element == First(pc.decoders[family], LAMBDA e : e.luid = gpu.luid)
  IN IF element = None THEN None ELSE Opened(element, preferred)

BaseD3d11(pc) ==
  IF Base(pc, "d3d11") = None THEN None
  ELSE [Opened(Base(pc, "d3d11"), "D3D11") EXCEPT !.memory = "D3D11"]

D3d12Decoder(pc, gpu) ==
  LET decoder == FamilyDecoder(pc, "d3d12", gpu, "D3D12")
  IN IF decoder # None /\ decoder.memory = "D3D12" THEN decoder ELSE None

VendorDecoder(pc, family, gpu) ==
  Or(FamilyDecoder(pc, family, gpu, "D3D11"),
     IF OnlyOfVendor(pc, gpu) /\ Base(pc, family) # None
     THEN Opened(Base(pc, family), "D3D11") ELSE None)

OnCpu(memory) == [device |-> None, caps |-> {}, memory |-> memory]

SoftwareDecoder(pc) == IF pc.software = {} THEN None ELSE OnCpu("system")

AutoDecoder(pc, gpu) ==
  LET OnGpu == IF gpu = None THEN None
               ELSE FamilyDecoder(pc, "d3d11", gpu, "D3D11")
      Alone == IF gpu = None \/ OnlyAdapter(pc, gpu) THEN BaseD3d11(pc) ELSE None
      Vendors == IF gpu = None THEN None
                 ELSE IF gpu.vendor = "nvidia" THEN VendorDecoder(pc, "nvh264", gpu)
                 ELSE IF gpu.vendor = "intel" THEN VendorDecoder(pc, "qsvh264", gpu)
                 ELSE None
      Decodebin == IF pc.decodebin THEN OnCpu("system") ELSE None
  IN Or(OnGpu, Or(Alone, Or(Vendors, Decodebin)))

SelectDecoder(pc, requested, gpu) ==
  CASE requested = "auto" -> AutoDecoder(pc, gpu)
    [] requested = "software" -> SoftwareDecoder(pc)
    [] requested = "avdec" ->
         IF "avdec_h264" \in pc.software THEN OnCpu("negotiated") ELSE None
    [] requested = "d3d11" ->
         IF gpu = None THEN BaseD3d11(pc)
         ELSE Or(FamilyDecoder(pc, "d3d11", gpu, "D3D11"),
                 IF OnlyAdapter(pc, gpu) THEN BaseD3d11(pc) ELSE None)

(***************************************************************************)
(* Sinks and routes.                                                       *)
(***************************************************************************)
Sink(kind, gpu) ==
  [kind |-> kind, adapter |-> IF gpu = None THEN None ELSE gpu.index]

SelectSink(pc, requested, gpu) ==
  LET d3d11 == "d3d11videosink" \in pc.sinks
  IN IF requested \in {"auto", "d3d11"} /\ d3d11 THEN Sink("d3d11videosink", gpu)
     ELSE IF requested = "d3d11" THEN None
     ELSE Sink("autovideosink", None)

Paired(decoder, sink) ==
  IF decoder = None \/ sink = None THEN None
  ELSE [decoder |-> decoder, sink |-> sink]

SelectRoute(pc, args, gpu, allowD3d12) ==
  LET modern == allowD3d12 /\ args.decoder = "auto" /\ args.sink = "auto"
                /\ gpu # None /\ gpu.vendor = "intel"
                /\ "d3d12videosink" \in pc.sinks
  IN Or(IF modern THEN Paired(D3d12Decoder(pc, gpu), Sink("d3d12videosink", gpu))
                  ELSE None,
        Paired(SelectDecoder(pc, args.decoder, gpu),
               SelectSink(pc, args.sink, gpu)))

\* What the caps between the decoder and the sink pin the frames to.
OutputMemory(route) ==
  CASE route.decoder.memory = "D3D12" /\ route.sink.kind = "d3d12videosink" -> "D3D12"
    [] route.decoder.memory = "D3D11" /\ route.sink.kind = "d3d11videosink" -> "D3D11"
    [] route.decoder.memory = "system" -> "system"
    [] OTHER -> "any"

\* decoder_frame_limits: the widest and the tallest frame of any of its caps.
FrameLimits(decoder) ==
  LET Largest(S) == CHOOSE n \in S : \A k \in S : k <= n
  IN IF decoder.caps = {} THEN None
     ELSE << Largest({c[1] : c \in decoder.caps}),
             Largest({c[2] : c \in decoder.caps}) >>

SoftwareRoute(pc, args, gpu) ==
  IF args.decoder \in {"avdec", "software"} THEN None
  ELSE Paired(SoftwareDecoder(pc), SelectSink(pc, args.sink, gpu))

(***************************************************************************)
(* build_receiver_video_plan.  args.valid: the numbers of the              *)
(* configuration are positive.                                             *)
(***************************************************************************)
Optional(route) == IF route = None THEN << >> ELSE << route >>

Plan(pc, args) ==
  LET gpu == ResolveReceiver(pc, args.gpu)
      primary == SelectRoute(pc, args, gpu, TRUE)
      older == IF OutputMemory(primary) = "D3D12"
               THEN SelectRoute(pc, args, gpu, FALSE) ELSE None
  IN IF ~args.valid \/ primary = None THEN None
     ELSE [gpu |-> gpu, limits |-> FrameLimits(primary.decoder), fec |-> pc.fec,
           routes |-> << primary >> \o Optional(older)
                      \o Optional(SoftwareRoute(pc, args, gpu))]
=============================================================================
