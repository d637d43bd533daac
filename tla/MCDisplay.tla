------------------------------ MODULE MCDisplay ------------------------------
(* Display for TLC, with the row addresses of the real display.              *)
EXTENDS Display

MCCells == {RowAddress(y) + x : y \in Rows, x \in 0 .. Cols - 1}

\* Rows shorter than, as long as and longer than the display is wide.
MCWants == {[n \in 1 .. Cols + 1 |-> 64 + n], <<90>>}
MCTexts == {[y \in Rows |-> IF y = 1 THEN t ELSE <<72, 73>>] : t \in MCWants}
=============================================================================
