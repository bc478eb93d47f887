---------------------------- MODULE SegmentRanges ----------------------------
(* The byte ranges compute_segments of segmented_engine.rs returns, in       *)
(* closed form; SegmentTiling proves that the loop of the code yields them.  *)
EXTENDS Integers

\* Number of ranges for a file of total bytes and n requested segments.
RangeCount(total, n) == IF n < total THEN n ELSE total

\* First byte of range i, when the file is cut into n ranges.
RangeStart(total, n, i) ==
    i * (total \div n) + (IF i < total % n THEN i ELSE total % n)
=============================================================================
