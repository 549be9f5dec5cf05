------------------------- MODULE MCEnvelopeFraming -------------------------
(* A small instance of EnvelopeFraming for TLC. *)
EXTENDS EnvelopeFraming

(* Nothing; an object; lines; an envelope of its own; line ends. *)
Explicit == {<<>>, Object(NoLength), <<NL, Text>>, Object({0}) \o <<NL>>, <<CR>>}

(* Nothing, an object, an object with a field named length. *)
Implicit == {<<>>, Object(NoLength), Object({2})}
============================================================================
