---------------------------- MODULE MCMpegInput ----------------------------
(* Streams for MpegInput: frames of two sizes and every main_data_begin an *)
(* encoder may choose, behind a start that is cut off or holds sync words  *)
(* that are no frame's.                                                    *)
EXTENDS MpegInput, TLC

CONSTANTS Sizes, Side, FrameCount, Fillers

SumTo(s) == LET sum[i \in 0..Len(s)] == IF i = 0 THEN 0 ELSE sum[i - 1] + s[i] IN sum

\* main_data_begin of a frame leaves the frame before it its own data.
Encodable(size, begin) == \A k \in 1..(FrameCount - 1) :
  begin[k + 1] <= begin[k] + size[k] - Side

\* Chance headers in a start of four bytes: none, one that is refused, ones
\* that are too short for their side information, lead into the first frame
\* or run over it, and one that is found by the search.
Chance(lead) == IF lead < 4 THEN {<< >>} ELSE
  {<< >>, 2 :> [ok |-> FALSE, size |-> 4, side |-> Side, begin |-> 0]}
  \cup {1 :> [ok |-> TRUE, size |-> n, side |-> Side, begin |-> 1] : n \in {1, 4, 7}}
  \cup {2 :> [ok |-> TRUE, size |-> 7, side |-> Side, begin |-> 1]}

StreamOf(lead, size, begin, chance) ==
  LET starts == SumTo(size)
      real   == [k \in 1..FrameCount |-> lead + 1 + starts[k - 1]]
      Index(p) == CHOOSE k \in 1..FrameCount : real[k] = p
  IN  [real |-> real, size |-> lead + starts[FrameCount] + Fillers,
       head |-> chance @@ [p \in {real[k] : k \in 1..FrameCount} |->
                  [ok |-> TRUE, size |-> size[Index(p)], side |-> Side, begin |-> begin[Index(p)]]]]

\* The file starts at a frame with its own data, or in the middle.
MCStreams ==
  UNION {{StreamOf(lead, sb[1], sb[2], chance) : chance \in Chance(lead)} :
           lead \in {0, 4},
           sb \in {sb \in [1..FrameCount -> Sizes] \X [1..FrameCount -> 0..MaxBegin] :
                     /\ Encodable(sb[1], sb[2])
                     /\ sb[2][1] \in {0, MaxBegin} /\ sb[1][FrameCount] = Side + 1}}
=============================================================================
