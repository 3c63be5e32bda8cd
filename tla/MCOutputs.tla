------------------------------ MODULE MCOutputs ------------------------------
(* Two readings of different colours.  Where a glyph of any picture begins, and a     *)
(* column behind, in the gap of the time, and the last.                               *)
EXTENDS Outputs

MCColumns == {1, 66, COLUMNS - 1} \cup
  UNION {{Layout[p][g].column : g \in DOMAIN Layout[p]} : p \in Pictures}

MCReadings == {[pm2_5 |-> 405, tvoc |-> 5], [pm2_5 |-> 1412, tvoc |-> 112]}
=============================================================================
