------------------------------- MODULE MCSplitFile -------------------------------
(* Model checking of split_file() and of the vector it fills.              *)
EXTENDS SplitFile

AllSegments == [n_th : 0 .. MaxElems - 1, file_size : 1 .. IntRange \div 2]
OneSegment == {Segment(0, 1)}

==================================================================================
