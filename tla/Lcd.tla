--------------------------------- MODULE Lcd ---------------------------------
(***************************************************************************)
(* The LCD of 132 columns (lcd13232.c).  A picture is a sequence of glyphs, *)
(* each written row by row: three commands set the address, then every data *)
(* byte goes to where the address is and moves it.  An interrupt that draws *)
(* between any two of these leaves the address where it stopped.            *)
(*                                                                          *)
(* What the screen shows at a row and column is the ink put there for it:   *)
(* the picture, its glyph, and the digit, if the glyph is one.  Ink that    *)
(* was meant for another place, or left by an earlier picture, is not told  *)
(* apart.  The data of a row are sent in two steps, the first byte and the  *)
(* rest: an interrupt between later bytes leaves the same behind.           *)
(*                                                                          *)
(* Two things are not steps.  The eleven commands with which Initial sets   *)
(* the display up again before each glyph (line 137): whatever a cut among  *)
(* them does to the address, the glyph's rows set it afterwards.  And the   *)
(* bits of a byte (20-40): one that an interrupt cuts is lost.  A lost      *)
(* command equals a cut after it, as the interrupt sets the whole address;  *)
(* a lost data byte is missing where it belongs, as if it had gone astray.  *)
(* The controller is external.                                              *)
(***************************************************************************)
EXTENDS Integers, FiniteSets, Sequences

CONSTANTS ROWS,       \* of 8 lines: the four of START_PAGE_ADDRESS
          Columns,    \* those whose ink is followed
          Readings    \* what the sensors may yield: [pm2_5 : tenths, tvoc : hundredths]

VARIABLES
  cells,      \* external: the ink at each row and column
  address,    \* external: where the next data byte goes
  overwrites, \* external: data behind the last column overwrite it, or are lost
  drawing,    \* the main loop's: picture, reading, and the next step
  overdrawn   \* history: another picture was drawn in the course of this one;
              \* what the screen then shows is not followed

lcd == <<cells, address, overwrites, drawing, overdrawn>>

COLUMNS == 132

(* The cases of LcdDisplaySensorData, and the start screen. *)
Pages == {"FENchen", "jiaQUAN", "WENdu", "SHIdu", "SHIjian"}
Pictures == Pages \cup {"ChuShiHua"}

-----------------------------------------------------------------------------

(* column += DisplayStrH32(width, column, ...) *)
Placed(columns, widths) ==
  [g \in 1 .. Len(columns) |-> [column |-> columns[g], width |-> widths[g]]]

(* The characters and six dots. *)
LcdDisplayInit == Placed(<<0, 32, 64, 97, 103, 109, 115, 121, 127>>,
                         <<32, 32, 32, 4, 4, 4, 4, 4, 4>>)

LcdDisplayPM25 == Placed(<<0, 32, 64, 80, 96, 100, 116>>, <<32, 32, 16, 16, 4, 16, 16>>)

LcdDisplayFormaldehyde ==
  Placed(<<0, 32, 64, 80, 84, 100, 116>>, <<32, 32, 16, 4, 16, 16, 16>>)

LcdDisplayTemp == Placed(<<0, 32, 64, 80, 96, 100, 116>>, <<32, 32, 16, 16, 4, 16, 16>>)

LcdDisplayHumi == Placed(<<0, 32, 64, 80, 96, 100, 116>>, <<32, 32, 16, 16, 4, 16, 16>>)

(* The date, four columns left free, and the time. *)
LcdDisplayTime ==
  Placed(<<0, 10, 20, 22, 32, 42, 44, 54, 68, 78, 88, 90, 100, 110, 112, 122>>,
         <<10, 10, 2, 10, 10, 2, 10, 10, 10, 10, 2, 10, 10, 2, 10, 10>>)

Layout == [p \in Pictures |->
             CASE p = "FENchen"   -> LcdDisplayPM25
               [] p = "jiaQUAN"   -> LcdDisplayFormaldehyde
               [] p = "WENdu"     -> LcdDisplayTemp
               [] p = "SHIdu"     -> LcdDisplayHumi
               [] p = "SHIjian"   -> LcdDisplayTime
               [] p = "ChuShiHua" -> LcdDisplayInit]

Last(p) == Len(Layout[p])

(* LcdDisplayInit and LcdDisplayTime call ClearScreen first. *)
Clears(p) == p \in {"ChuShiHua", "SHIjian"}

(* The digits of a reading, by the number of the glyph that shows them: the   *)
(* thousands of ShowPM25 and of ShowFormaldehyde are dropped.  The other      *)
(* pages' readings are not told apart.                                        *)
Digit(p, g, v) ==
  CASE p = "FENchen" /\ g = 3 -> (v.pm2_5 \div 100) % 10
    [] p = "FENchen" /\ g = 4 -> (v.pm2_5 \div 10) % 10
    [] p = "FENchen" /\ g = 6 -> v.pm2_5 % 10
    [] p = "jiaQUAN" /\ g = 3 -> (v.tvoc \div 100) % 10
    [] p = "jiaQUAN" /\ g = 5 -> (v.tvoc \div 10) % 10
    [] p = "jiaQUAN" /\ g = 6 -> v.tvoc % 10
    [] OTHER -> 0

-----------------------------------------------------------------------------

Rows == 0 .. ROWS - 1

Inks == [picture : Pictures, glyph : 0 .. 16, digit : 0 .. 9]
Ink(p, g, digit) == [picture |-> p, glyph |-> g, digit |-> digit]
Blank == Ink("ChuShiHua", 0, 0)
Remains == Ink("ChuShiHua", 0, 1)
Everywhere(ink) == [r \in Rows |-> [s \in Columns |-> ink]]

(* The glyph of p that has column s, or 0. *)
Over(p, g, s) == Layout[p][g].column <= s /\ s < Layout[p][g].column + Layout[p][g].width
Owner(p, s) == IF \E g \in DOMAIN Layout[p] : Over(p, g, s)
                 THEN CHOOSE g \in DOMAIN Layout[p] : Over(p, g, s)
                 ELSE 0

(* What a glyph of p shows of a reading; 0 stands for ClearScreen. *)
Shows(p, g, v) == IF g = 0 THEN Blank ELSE Ink(p, g, Digit(p, g, v))

(* What the screen shows once p has been drawn with nothing in between. *)
Picture == [p \in Pictures |-> [v \in Readings |->
  [r \in Rows |-> [s \in Columns |-> Shows(p, Owner(p, s), v)]]]]

-----------------------------------------------------------------------------

Steps == {"page", "high", "low", "data", "rest"}

NotDrawing == [picture |-> "ChuShiHua", reading |-> CHOOSE v \in Readings : TRUE,
               glyph |-> 0, row |-> 0, step |-> "done"]

Drawing == drawing.step # "done"

(* Mutant: the page with the time does not clear the screen. *)
NothingCleared(p, v) == [picture |-> p, reading |-> v, glyph |-> 1, row |-> 0, step |-> "page"]

Begun(p, v) == [picture |-> p, reading |-> v, glyph |-> IF Clears(p) THEN 0 ELSE 1,
                row |-> 0, step |-> "page"]

(* InitLCD has cleared the screen; LcdDisplayInit is called. *)
LcdInit ==
  /\ cells = Everywhere(Blank)
  /\ address = [row |-> ROWS - 1, column |-> COLUMNS]
  /\ overwrites \in BOOLEAN
  /\ drawing = Begun("ChuShiHua", CHOOSE v \in Readings : TRUE)
  /\ overdrawn = FALSE

(* The main loop begins to draw p. *)
Draw(p, v) ==
  /\ drawing' = Begun(p, v)
  /\ cells' = Everywhere(Remains) /\ overdrawn' = FALSE
  /\ UNCHANGED <<address, overwrites>>

(* The columns of what is being drawn. *)
Glyph == IF drawing.glyph = 0 THEN [column |-> 0, width |-> COLUMNS]
                              ELSE Layout[drawing.picture][drawing.glyph]

Then(step) == drawing' = [drawing EXCEPT !.step = step]

(* SetLcdAddress: the row and the column's two halves. *)
SetPage ==
  /\ drawing.step = "page" /\ Then("high")
  /\ address' = [address EXCEPT !.row = drawing.row]
  /\ UNCHANGED cells

SetHigh ==
  /\ drawing.step = "high" /\ Then("low")
  /\ address' = [address EXCEPT !.column = (Glyph.column \div 16) * 16 + (@ % 16)]
  /\ UNCHANGED cells

SetLow ==
  /\ drawing.step = "low" /\ Then("data")
  /\ address' = [address EXCEPT !.column = (@ \div 16) * 16 + (Glyph.column % 16)]
  /\ UNCHANGED cells

(* External: bytes meant for width columns from column on.  The address moves *)
(* with them up to the last column.  What comes then is lost, or overwrites   *)
(* that column, at last with the right byte if these end the row.             *)
Written(column, width) ==
  LET ink == Shows(drawing.picture, drawing.glyph, drawing.reading)
      lands(s) == address.column <= s /\ s < address.column + width
      held(s) == overwrites /\ s = COLUMNS - 1 /\ address.column + width > COLUMNS
      right(s) == /\ address.row = drawing.row
                  /\ address.column = column \/ (held(s) /\ column + width = COLUMNS)
  IN  [cells EXCEPT ![address.row] = [s \in Columns |->
         IF lands(s) \/ held(s) THEN IF right(s) \/ ink = Blank THEN ink ELSE Remains
                                ELSE @[s]]]

WriteData(column, width) ==
  /\ cells' = IF overdrawn THEN cells ELSE Written(column, width)
  /\ address' = [address EXCEPT !.column = IF @ + width < COLUMNS THEN @ + width ELSE COLUMNS]

FirstByte ==
  /\ drawing.step = "data" /\ Then("rest")
  /\ WriteData(Glyph.column, 1)

(* The loops over rows and glyphs go on. *)
RestOfRow ==
  /\ drawing.step = "rest"
  /\ WriteData(Glyph.column + 1, Glyph.width - 1)
  /\ drawing' = IF drawing.row < ROWS - 1
                  THEN [drawing EXCEPT !.row = @ + 1, !.step = "page"]
                ELSE IF drawing.glyph < Last(drawing.picture)
                  THEN [drawing EXCEPT !.glyph = @ + 1, !.row = 0, !.step = "page"]
                ELSE NotDrawing

DrawStep ==
  /\ SetPage \/ SetHigh \/ SetLow \/ FirstByte \/ RestOfRow
  /\ UNCHANGED <<overwrites, overdrawn>>

(* The interrupt draws p from beginning to end. *)
DrawnAtOnce(p, v) ==
  /\ overdrawn' = (Drawing /\ (overdrawn \/ p # drawing.picture))
  /\ cells' = IF overdrawn' THEN Everywhere(Remains) ELSE Picture[p][v]
  /\ address' = [row |-> ROWS - 1, column |-> COLUMNS]
  /\ UNCHANGED <<overwrites, drawing>>

(* The screen shows p, whatever its digits. *)
ShowsPage(p) ==
  \A r \in Rows : \A s \in Columns : \E v \in Readings : cells[r][s] = Picture[p][v][r][s]
=============================================================================
