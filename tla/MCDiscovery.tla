---------------------------- MODULE MCDiscovery ----------------------------
(***************************************************************************)
(* Networks for TLC, in five-bit addresses with subnets of eight: a        *)
(* receiver reached over cable and wireless, one behind a dead virtual     *)
(* adapter that also gave itself an address, one of another PIN.           *)
(***************************************************************************)
EXTENDS Discovery

At(ip, bits, link) == [ip |-> ip, bits |-> bits, link |-> link, up |-> TRUE]

MCHomes ==
  << {At(6, 3, "cable"), At(14, 3, "wireless")},
     {[At(17, 3, "none") EXCEPT !.up = FALSE], At(1, 4, "cable"),
      At(21, 2, "cable")},
     {At(3, 3, "cable")} >>

MCLan == 0..15

MCOffices ==
  { << At(22, 2, "cable"), At(2, 3, "cable") >>,
    << [At(29, 2, "none") EXCEPT !.up = FALSE], At(5, 4, "cable"), At(9, 3, "wireless") >>,
    << At(24, 1, "tunnel"), At(5, 4, "cable") >> }
=============================================================================
