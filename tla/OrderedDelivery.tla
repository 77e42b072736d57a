--------------------------- MODULE OrderedDelivery ---------------------------
(***************************************************************************)
(* What a frame converter promises whoever feeds it frames numbered        *)
(* 1, 2, ...: images come out in feeding order, each frame at most once,   *)
(* and never before it was fed.  Any frame may be lost on the way.         *)
(***************************************************************************)
EXTENDS Naturals, Sequences

VARIABLES fed,       \* frames fed so far
          images     \* the frame each image shows, in the order of the images

Latest == IF images = << >> THEN 0 ELSE images[Len(images)]

Init == fed = 0 /\ images = << >>

Feed == fed' = fed + 1 /\ UNCHANGED images

\* Frames between the old and the new latest are lost.
Emit ==
  /\ \E f \in (Latest + 1) .. fed : images' = Append(images, f)
  /\ UNCHANGED fed

Next == Feed \/ Emit

Spec == Init /\ [][Next]_<<fed, images>>
=============================================================================
