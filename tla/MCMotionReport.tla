---------------------------- MODULE MCMotionReport ----------------------------
(* Three-bit deltas and four-bit events: two samples fit an event, three   *)
(* may not.  A motion with both extremes, which cancels itself when the    *)
(* axes are inverted, and none; flags that tell the order of swap and      *)
(* inversion.                                                              *)
EXTENDS MotionReport

MCMotion == {[x |-> -4, y |-> 3], [x |-> 0, y |-> 0]}

MCAxisFlags ==
  {[swap_xy |-> FALSE, invert_x |-> FALSE, invert_y |-> FALSE],
   [swap_xy |-> TRUE, invert_x |-> TRUE, invert_y |-> FALSE],
   [swap_xy |-> FALSE, invert_x |-> TRUE, invert_y |-> TRUE]}
=============================================================================
