------------------------------ MODULE MCArtifacts ------------------------------
(* A small instance of Artifacts for TLC. *)
EXTENDS Artifacts

CONSTANTS p1, p2, v1, app, u1, u2, before, after, cut

(* Two maps: segments of one, four and five fields, fields that go up and     *)
(* down within a line and over an empty one, values of up to three digits,    *)
(* two segments at one column, and lines that start before their first.       *)
Seg(column, fields) == [column |-> column, fields |-> fields]
First == << <<Seg(0, <<0, 0, 0>>), Seg(20, << >>), Seg(20, <<1, 17, 3, 2>>)>>,
            << >>,
            <<Seg(19, <<0, 40, 0, 1>>), Seg(600, <<2, 5, 600>>)>> >>
Second == << <<Seg(19, <<1, 600, 15, 0>>)>>,
             <<Seg(0, << >>), Seg(600, <<0, 16, 16, 17>>), Seg(601, <<0, 0, 0, 0>>)>>,
             <<Seg(1, <<0, 31, 40>>)>> >>
MCBuilt == (before :> First) @@ (after :> Second)

(* And a text that ends in the middle of a value. *)
Cut == << << <<0, 32>> >> >>
MCMappings == (before :> Encoded(First)) @@ (after :> Encoded(Second)) @@ (cut :> Cut)

Frame(path, line, column) == [abs_path |-> path, lineno |-> line, colno |-> column]
MCFrames == {Frame(app, 1, 1), Frame(app, 3, 21), Frame(app, 2, 0), Frame(NoPath, 1, 1)}

Symmetry == Permutations(Projects) \cup Permutations(Uploads)
================================================================================
