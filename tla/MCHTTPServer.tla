---------------------------- MODULE MCHTTPServer ----------------------------
(* HTTPServer with frames of the sizes at which the encodings change. *)
EXTENDS HTTPServer

Fr(op, fin, masked, size) == [op |-> op, fin |-> fin, masked |-> masked, size |-> size]

MCFrames ==
  {Fr(1, TRUE, TRUE, QUIT), Fr(1, TRUE, FALSE, 0), Fr(2, TRUE, TRUE, 65536),
   Fr(1, FALSE, TRUE, 122), Fr(2, FALSE, FALSE, 65532), Fr(1, FALSE, TRUE, 0),
   Fr(0, FALSE, TRUE, 3), Fr(0, TRUE, TRUE, QUIT), Fr(0, TRUE, FALSE, 3),
   Fr(8, TRUE, TRUE, 2), Fr(9, TRUE, TRUE, 125), Fr(9, TRUE, FALSE, 0), Fr(10, TRUE, TRUE, 0), Fr(11, TRUE, TRUE, 0)}

MCTexts == UNION {[1..n -> {" ", "&", "a"}] : n \in 0..3}
=============================================================================
