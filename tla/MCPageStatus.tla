----------------------------- MODULE MCPageStatus -----------------------------
(***************************************************************************)
(* Model checking of PageStatus: a page at either side of edges of the     *)
(* allowed ranges, at IPv6 addresses, and at one that does not parse.  The *)
(* sockets of the page are interchangeable in fact, but the run checks a   *)
(* liveness property, so they are not declared so.                         *)
(***************************************************************************)
EXTENDS PageStatus

Places ==
    {Nil, Loopback6, [Loopback6 EXCEPT ![16] = 2], Mapped(127, 255, 255, 255),
     Mapped(172, 15, 255, 255), Mapped(172, 16, 0, 0), Mapped(172, 31, 255, 255),
     Mapped(172, 32, 0, 0), Mapped(9, 255, 255, 255), Mapped(10, 0, 0, 0),
     Mapped(192, 168, 255, 255), Mapped(192, 169, 0, 0)}

=============================================================================
