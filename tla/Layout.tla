------------------------------- MODULE Layout --------------------------------
(***************************************************************************)
(* The arithmetic of ResolveSizeAndOffset (src/typing/types.go): where the *)
(* next field of a struct goes and how the struct ends.  A field has a     *)
(* size and an alignment, a layout the offsets given so far, the size up   *)
(* to there and the biggest alignment.                                     *)
(***************************************************************************)
EXTENDS Integers, Sequences

\* Wrong variants, named "faulty", show which property notices a mistake; the
\* specification does not use them.  This one rounds down.
faultyRoundUp(n, a) == n - (n % a)

\* The closest multiple of the alignment a, from n on.
roundUp(n, a) == IF n % a = 0 THEN n ELSE n - (n % a) + a

EmptyLayout == [offsets |-> <<>>, size |-> 0, alignment |-> 0]

\* Nothing is aligned to zero; the offset of the first field is not computed.
placeable(layout, field) == layout.offsets # <<>> => field.alignment # 0

\* The last alignment wins, not the biggest.
faultyPlaceField(layout, field) ==
    LET offset == IF layout.offsets = <<>> THEN 0 ELSE roundUp(layout.size, field.alignment)
    IN  [offsets |-> Append(layout.offsets, offset), size |-> offset + field.size,
         alignment |-> field.alignment]

\* The size is that of the field and not where it ends.
faultyPlaceFieldAgain(layout, field) ==
    LET offset == IF layout.offsets = <<>> THEN 0 ELSE roundUp(layout.size, field.alignment)
    IN  [offsets |-> Append(layout.offsets, offset), size |-> field.size,
         alignment |-> IF field.alignment > layout.alignment
                       THEN field.alignment ELSE layout.alignment]

\* The field is put right behind the one before.
faultyPlaceFieldTight(layout, field) ==
    [offsets |-> Append(layout.offsets, layout.size), size |-> layout.size + field.size,
     alignment |-> IF field.alignment > layout.alignment
                   THEN field.alignment ELSE layout.alignment]

placeField(layout, field) ==
    LET offset == IF layout.offsets = <<>> THEN 0 ELSE roundUp(layout.size, field.alignment)
    IN  [offsets |-> Append(layout.offsets, offset), size |-> offset + field.size,
         alignment |-> IF field.alignment > layout.alignment
                       THEN field.alignment ELSE layout.alignment]

closeable(layout) == layout.alignment # 0

\* No padding behind the last field.
faultyCloseLayout(layout) == layout

\* The size of a struct is a multiple of its alignment.
closeLayout(layout) == [layout EXCEPT !.size = roundUp(layout.size, layout.alignment)]

=============================================================================
