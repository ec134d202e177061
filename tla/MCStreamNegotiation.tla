------------------------ MODULE MCStreamNegotiation ------------------------
(***************************************************************************)
(* Computers, configurations and announcements for TLC: a laptop with an   *)
(* integrated and a dedicated GPU whose display may move between them, a   *)
(* desktop with one GPU and old plugins, and a telephone.                  *)
(***************************************************************************)
EXTENDS StreamNegotiation

Nvidia == [index |-> 0, luid |-> 11, vendor |-> "nvidia", words |-> {"GeForce", "RTX"}]
Intel == [index |-> 1, luid |-> 12, vendor |-> "intel", words |-> {"UHD"}]
Old == [index |-> 0, luid |-> 21, vendor |-> "intel", words |-> {"HD"}]

Element(luid, device, memory, caps) ==
  [luid |-> luid, device |-> device, memory |-> memory, caps |-> caps]

NoDecoders == [f \in {"d3d12", "d3d11", "nvh264", "qsvh264"} |-> << >>]

Laptop(shown) ==
  [adapters |-> << Nvidia, Intel >>,
   screens |-> << [attached |-> TRUE, primary |-> TRUE, adapter |-> shown] >>,
   decoders |-> [NoDecoders EXCEPT
     !["d3d12"] = << Element(11, 11, {"D3D12"}, {<< 4096, 4096 >>}),
                     Element(12, 12, {"D3D12"}, {<< 4096, 2304 >>}) >>,
     !["d3d11"] = << Element(11, 11, {"D3D11"}, {<< 4096, 4096 >>}) >>,
     !["qsvh264"] = << Element(None, 12, {"D3D11"},
                               {<< 1920, 1088 >>, << 1088, 1920 >>}) >>],
   software |-> {"openh264dec"}, decodebin |-> TRUE, fec |-> TRUE,
   sinks |-> {"d3d11videosink", "d3d12videosink"}, display |-> << 1920, 1080 >>]

\* One adapter, whose only decoder does not say what it is bound to; the
\* bundled plugins were built without FEC.
OldPc(display) ==
  [adapters |-> << Old >>,
   screens |-> << [attached |-> TRUE, primary |-> FALSE, adapter |-> 21] >>,
   decoders |-> [NoDecoders EXCEPT
     !["d3d11"] = << Element(None, 21, {}, {<< 1920, 1920 >>}) >>],
   software |-> {}, decodebin |-> TRUE, fec |-> FALSE,
   sinks |-> {"d3d11videosink"}, display |-> display]

\* No display shows where to decode, and nothing but software can.
Headless ==
  [OldPc(None) EXCEPT !.screens = << >>, !.decoders = NoDecoders,
                      !.software = {"openh264dec", "avdec_h264"}, !.sinks = {}]

MCDesks == [r \in {1, 2} |->
  IF r = 1 THEN {Laptop(11), Laptop(12)} ELSE {OldPc(<< 1366, 768 >>), Headless}]

Auto == [gpu |-> None, decoder |-> "auto", sink |-> "auto", valid |-> TRUE]
MCRecvArgs ==
  {Auto, [Auto EXCEPT !.decoder = "d3d11",
                      !.gpu = [number |-> 7, words |-> {"UHD"}]]}

\* DiscoveryAgent.java announces neither FEC nor the High profile.
MCPeers == {[display |-> << 1080, 2340 >>, fec |-> FALSE, high |-> FALSE,
             limits |-> << 1920, 1080 >>]}

Target(i, handle) ==
  [name |-> i, capture |-> i, handle |-> handle, primary |-> FALSE,
   bundled |-> TRUE, virtual |-> TRUE, adapter |-> 12]

Panel(adapter) ==
  [name |-> 0, capture |-> 0, handle |-> TRUE, primary |-> TRUE,
   bundled |-> FALSE, virtual |-> FALSE, adapter |-> adapter]

Encoder(luid, device, d3d11) == [luid |-> luid, device |-> device, d3d11 |-> d3d11]
NoEncoders == [f \in {"nvidia", "quicksync", "amf", "mediafoundation", "x264"} |-> << >>]

TwoGpus ==
  [adapters |-> << Nvidia, Intel >>, fec |-> TRUE,
   monitors |-> << Panel(11), Target(1, TRUE), Target(2, TRUE) >>,
   targets |-> << Target(1, TRUE), Target(2, TRUE) >>,
   encoders |-> [NoEncoders EXCEPT
     !["nvidia"] = << Encoder(11, 11, TRUE) >>,
     !["mediafoundation"] = << Encoder(11, 11, TRUE), Encoder(None, None, FALSE) >>,
     !["x264"] = << Encoder(None, None, FALSE) >>]]

\* A display that Windows gives no handle cannot be told from the others.
NoHandle == [TwoGpus EXCEPT !.targets = << Target(1, TRUE), Target(2, FALSE) >>]

MCSenders == {TwoGpus, NoHandle}

Mirror ==
  [gpu |-> None, encoder |-> "auto", software |-> FALSE, size |-> << None, None >>,
   monitor |-> -1, prefer |-> TRUE, virtual |-> TRUE, sync |-> TRUE,
   zeroCopy |-> TRUE, fec |-> TRUE, profile |-> "auto", hosts |-> None,
   limit |-> 4, valid |-> TRUE]
MCSendArgs ==
  {Mirror,
   [Mirror EXCEPT !.gpu = [number |-> 0, words |-> {"0"}], !.size = << 2560, 1441 >>],
   [Mirror EXCEPT !.virtual = FALSE, !.hosts = << 1, 2 >>, !.size = << 1280, None >>],
   [Mirror EXCEPT !.virtual = FALSE, !.prefer = FALSE, !.limit = 1,
                  !.size = << 1280, 721 >>]}

MCModes == {<< 1366, 768 >>, << 3840, 2161 >>}
MCMinMode == << 640, 480 >>
=============================================================================
