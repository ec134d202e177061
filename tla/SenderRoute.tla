---------------------------- MODULE SenderRoute ----------------------------
(***************************************************************************)
(* How a sender turns its configuration and what a receiver announced into *)
(* one video pipeline: the display it captures, the GPU and the encoder it *)
(* uses, whether frames stay in GPU memory, and the size it scales to      *)
(* (apps/desktop/src/pipeline.rs, lan.rs, and fit_within of                *)
(* crates/sm-core/src/discovery.rs).                                       *)
(*                                                                         *)
(* A computer pc is a record: adapters, monitors (in enumeration order),   *)
(* encoders (for each family the registered elements, the base one first), *)
(* fec (rtpulpfecenc exists).                                              *)
(***************************************************************************)
EXTENDS Integers, ReceiverRoute

(***************************************************************************)
(* Frame sizes.                                                            *)
(***************************************************************************)
Even(n) == n - (n % 2)
AtLeastTwo(n) == IF n < 2 THEN 2 ELSE n

\* Mutant: only the width decides the scale.
FitsWidth(source, limit) ==
  IF 0 \in {source[1], source[2], limit[1], limit[2]} THEN None
  ELSE IF source[1] <= limit[1] /\ source[2] <= limit[2] THEN None
  ELSE << AtLeastTwo(Even(limit[1])),
          AtLeastTwo(Even((limit[1] * source[2]) \div source[1])) >>

\* fit_within: None when the source already fits.
FitWithin(source, limit) ==
  LET w == source[1]
      h == source[2]
      height == (limit[1] * h) \div w
      scaled == IF height <= limit[2] THEN << limit[1], height >>
                ELSE << (limit[2] * w) \div h, limit[2] >>
      fitted == << AtLeastTwo(Even(scaled[1])), AtLeastTwo(Even(scaled[2])) >>
  IN IF 0 \in {w, h, limit[1], limit[2]} THEN None
     ELSE IF w <= limit[1] /\ h <= limit[2] THEN None
     ELSE IF fitted = source THEN None
     ELSE fitted

\* effective_video_size; size is << width, height >>, each None or a number.
VideoSize(size, limits, mode) ==
  LET source == IF None \notin {size[1], size[2]} THEN size ELSE mode
  IN IF source = None \/ limits = None THEN size
     ELSE Or(FitWithin(source, limits), size)

(***************************************************************************)
(* The captured display.                                                   *)
(***************************************************************************)
PreferredVirtual(pc) ==
  LET ready(m) == m.capture # None /\ ~m.primary
  IN Or(First(pc.monitors, LAMBDA m : ready(m) /\ m.bundled),
        First(pc.monitors, LAMBDA m : ready(m) /\ m.virtual))

SourceOf(target) ==
  IF target.handle THEN [by |-> "handle", is |-> target.name]
  ELSE IF target.bundled THEN None
  ELSE [by |-> "index", is |-> IF target.capture = None THEN -1 ELSE target.capture]

MonitorAt(pc, index) ==
  First(pc.monitors, LAMBDA m : IF index >= 0 THEN m.capture = index ELSE m.primary)

\* The display a pipeline captures, None: one named by args.monitor.
CaptureTarget(pc, args, target) ==
  IF target # None THEN target
  ELSE IF args.prefer /\ args.monitor < 0 THEN PreferredVirtual(pc) ELSE None

CaptureSource(pc, args, target) ==
  LET chosen == CaptureTarget(pc, args, target)
  IN IF chosen # None THEN SourceOf(chosen)
     ELSE IF args.prefer /\ args.monitor < 0 /\ args.virtual THEN None
     ELSE [by |-> "index", is |-> args.monitor]

CaptureAdapter(pc, args, target) ==
  AdapterOf(pc, Or(CaptureTarget(pc, args, target), MonitorAt(pc, args.monitor)))

(***************************************************************************)
(* The encoder.                                                            *)
(***************************************************************************)
PreferredFor(vendor) ==
  CASE vendor = "nvidia" -> << "nvidia", "mediafoundation" >>
    [] vendor = "amd"    -> << "amf", "mediafoundation" >>
    [] vendor = "intel"  -> << "quicksync", "mediafoundation" >>
    [] OTHER             -> << "nvidia", "quicksync", "amf", "mediafoundation" >>

EncoderOnGpu(pc, family, gpu) ==
  LET elements == pc.encoders[family]
      bound == IF gpu = None THEN None
               ELSE First(elements, LAMBDA e : e.luid = gpu.luid)
  IN IF elements = << >> THEN None ELSE Or(bound, elements[1])

FirstEncoder(pc, software, gpu) ==
  LET families == PreferredFor(IF gpu = None THEN "other" ELSE gpu.vendor)
      family == First(families, LAMBDA f : EncoderOnGpu(pc, f, gpu) # None)
  IN IF family # None THEN EncoderOnGpu(pc, family, gpu)
     ELSE IF software THEN EncoderOnGpu(pc, "x264", None)
     ELSE None

SelectEncoder(pc, args, gpu) ==
  IF args.encoder = "auto" THEN FirstEncoder(pc, args.software, gpu)
  ELSE EncoderOnGpu(pc, args.encoder, gpu)

SenderGpu(pc, args, capture) == Or(Resolve(pc, args.gpu), capture)

SameGpu(encoder, capture) ==
  encoder.luid # None => capture # None /\ capture.luid = encoder.luid

FrameMemory(args, encoder, capture) ==
  IF args.zeroCopy /\ encoder.d3d11 /\ SameGpu(encoder, capture)
  THEN "D3D11" ELSE "system"

(***************************************************************************)
(* build_sender_video_pipeline_for.  args.valid: the numbers pass          *)
(* ensure_positive and the two validators, and the hosts parse.            *)
(***************************************************************************)
SenderPipeline(pc, args, target) ==
  LET source == CaptureSource(pc, args, target)
      capture == CaptureAdapter(pc, args, target)
      encoder == SelectEncoder(pc, args, SenderGpu(pc, args, capture))
      halfSize == (args.size[1] = None) # (args.size[2] = None)
  IN IF \/ ~args.valid \/ halfSize \/ source = None \/ encoder = None
        \/ args.fec /\ ~pc.fec
     THEN None
     ELSE [source |-> source, capture |-> capture, encoder |-> encoder,
           memory |-> FrameMemory(args, encoder, capture),
           size |-> args.size, fec |-> args.fec, profile |-> args.profile]
=============================================================================
