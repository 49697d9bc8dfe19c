------------------------------- MODULE MCSeek -------------------------------
(***************************************************************************)
(* Seek as it is model-checked: on five discs of regular fields, some with *)
(* one that cannot be decoded.                                             *)
(***************************************************************************)
EXTENDS Seek

CONSTANTS Fields,     \* fields of a capture
          Defect      \* the one that cannot be decoded

Picture(n) == <<15, 8, 0, 0, n \div 10, n % 10>>
Second(n) == <<8, 10, 14, 0, 0, n>>
Time == <<15, 0, 13, 13, 0, 0>>
Plain == <<NoCode, NoCode, NoCode>>

Regular(codes(_), valid(_)) ==
    [k \in 0 .. Fields - 1 |->
        [start |-> 6 * k + 3, next |-> 6 * k + 9, first |-> k % 2 = 0,
         valid |-> valid(k), codes |-> codes(k)]]

\* Still pictures with a number on the first field, up to a lead-out.
Cav(k) == IF k >= Fields - 2 THEN <<LeadOut, LeadOut, NoCode>>
          ELSE IF k % 2 = 0 THEN <<NoCode, Picture(k \div 2 + 1), NoCode>> ELSE Plain

\* A programme in time: the number of a frame is on both of its fields.
Clv(k) == <<Second(k \div 2), Time, NoCode>>

\* Numbers that lead the way back and forth.
Wrong(k) == IF k % 2 = 0 THEN <<NoCode, Picture((7 * k) % 5), NoCode>> ELSE Plain
Bare(k) == Plain

AllValid(k) == TRUE
Damaged(k) == k # Defect

MCDiscs ==
    {Regular(Cav, AllValid), Regular(Cav, Damaged), Regular(Clv, Damaged),
     Regular(Wrong, AllValid), Regular(Bare, AllValid)}
=============================================================================
