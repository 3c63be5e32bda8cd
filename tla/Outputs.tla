------------------------------- MODULE Outputs -------------------------------
(***************************************************************************)
(* What the device shows and drives: the main loop (main.c:608-616) draws   *)
(* the pages of the LCD, opens and closes the fan and adapts the LEDs, one  *)
(* after the other, while the timer of the PWM runs and a connection may    *)
(* call sample_start_handler in an interrupt, in the middle of any of it.   *)
(* The interrupt's handler is one step; the steps of the counter of pages   *)
(* are those of Sampling.                                                   *)
(***************************************************************************)
EXTENDS Lcd, Leds, Pwm

CONSTANT MaxNested      \* bound: connections in the course of one handler or start screen

ASSUME OutputsAssumption ==
  /\ ROWS \in Nat \ {0} /\ MaxNested \in Nat
  /\ Columns \subseteq 0 .. COLUMNS - 1
  /\ \A g \in DOMAIN Layout["FENchen"] : Layout["FENchen"][g].column \in Columns
  /\ Readings # {} /\ \A v \in Readings : v.pm2_5 \in Nat /\ v.tvoc \in Nat

VARIABLES
  loop,           \* where the main loop is
  SampleTickTack,
  m_sensor,
  nested,         \* history: connections since the handler or start screen began
  shown,          \* history: the picture drawn last
  renewed         \* history: its readings were replaced in the course of the handler

history == <<nested, shown, renewed>>
vars == <<lcd, leds, pwm, loop, SampleTickTack, m_sensor, history>>

LCD_SHOW_PAGE == 5

(* LcdShowFlag *)
PageAt == [t \in 0 .. LCD_SHOW_PAGE - 1 |->
             CASE t = 0 -> "FENchen" [] t = 1 -> "jiaQUAN" [] t = 2 -> "WENdu"
               [] t = 3 -> "SHIdu" [] t = 4 -> "SHIjian"]

Zeros == [pm2_5 |-> 0, tvoc |-> 0]

Init ==
  /\ LcdInit /\ LedsInit /\ nrf_pwm_init
  /\ loop = "InitFan" /\ SampleTickTack = 0 /\ m_sensor = Zeros
  /\ nested = 0 /\ shown = "ChuShiHua" /\ renewed = FALSE

Goto(from, to) == loop = from /\ loop' = to

-----------------------------------------------------------------------------

(* InitAirPurifier: the fan is opened first of all. *)
InitFan ==
  /\ loop = "InitFan" /\ ~hw.power
  /\ OpenFan
  /\ UNCHANGED <<lcd, leds, loop, SampleTickTack, m_sensor, history>>

FanOpened ==
  /\ Goto("InitFan", "LcdDisplayInit") /\ hw.power /\ call = Returned
  /\ UNCHANGED <<lcd, leds, pwm, SampleTickTack, m_sensor, history>>

(* The steps of nrf_pwm_set_value. *)
SwitchFan ==
  /\ loop \in {"InitFan", "rx_buffer_queue"}
  /\ PwmMain
  /\ UNCHANGED <<lcd, leds, loop, SampleTickTack, m_sensor, history>>

InitShown ==
  /\ Goto("LcdDisplayInit", "app_sched_execute") /\ ~Drawing
  /\ UNCHANGED <<lcd, leds, pwm, SampleTickTack, m_sensor, history>>

(* app_sched_execute calls the handler.  It reads the sensors for the first   *)
(* page, *)
sample_start_handler ==
  /\ Goto("app_sched_execute", "show")
  /\ m_sensor' \in IF SampleTickTack = 0 THEN Readings ELSE {m_sensor}
  /\ UNCHANGED <<lcd, leds, pwm, SampleTickTack, history>>

(* Mutant: every page is drawn with the readings of the start of the device.  *)
ShowFirstReading ==
  /\ Goto("show", "draw")
  /\ Draw(PageAt[SampleTickTack], CHOOSE v \in Readings : TRUE)
  /\ shown' = PageAt[SampleTickTack]
  /\ nested' = 0 /\ renewed' = FALSE
  /\ UNCHANGED <<leds, pwm, SampleTickTack, m_sensor>>

(* passes them by value, draws *)
LcdDisplaySensorData ==
  /\ Goto("show", "draw")
  /\ Draw(PageAt[SampleTickTack], m_sensor)
  /\ shown' = PageAt[SampleTickTack]
  /\ nested' = 0 /\ renewed' = FALSE
  /\ UNCHANGED <<leds, pwm, SampleTickTack, m_sensor>>

DrawPicture ==
  /\ DrawStep
  /\ loop \in {"LcdDisplayInit", "draw"}
  /\ UNCHANGED <<leds, pwm, loop, SampleTickTack, m_sensor, history>>

Counted == (SampleTickTack + 1) % LCD_SHOW_PAGE

(* and counts the page. *)
CountPage ==
  /\ Goto("draw", "app_sched_execute") /\ ~Drawing
  /\ SampleTickTack' = Counted
  /\ UNCHANGED <<lcd, leds, pwm, m_sensor, history>>

(* No handler is left; a packet may switch the fan. *)
rx_buffer_queue ==
  /\ Goto("app_sched_execute", "rx_buffer_queue")
  /\ OpenFan \/ CloseFan \/ UNCHANGED pwm
  /\ UNCHANGED <<lcd, leds, SampleTickTack, m_sensor, history>>

Adapt ==
  /\ Goto("rx_buffer_queue", "SmartAdapt") /\ call = Returned
  /\ SmartAdapt(m_sensor)
  /\ UNCHANGED <<lcd, pwm, SampleTickTack, m_sensor, history>>

OpenLeds ==
  /\ AdaptAqi \/ AdaptWarn
  /\ UNCHANGED <<lcd, pwm, loop, SampleTickTack, m_sensor, history>>

NextTurn ==
  /\ Goto("SmartAdapt", "app_sched_execute") /\ adapt = NotAdapting
  /\ UNCHANGED <<lcd, leds, pwm, SampleTickTack, m_sensor, history>>

(* Interrupts come first. *)
MainLoop ==
  /\ ~IrqPending
  /\ \/ InitFan \/ FanOpened \/ SwitchFan \/ InitShown \/ sample_start_handler
     \/ LcdDisplaySensorData \/ DrawPicture \/ CountPage \/ rx_buffer_queue
     \/ Adapt \/ OpenLeds \/ NextTurn

(* on_ble_evt, BLE_GAP_EVT_CONNECTED: sample_timers_start calls the handler.  *)
Connected ==
  /\ loop # "InitFan" /\ (Drawing => nested < MaxNested)
  /\ \E v \in IF SampleTickTack = 0 THEN Readings ELSE {m_sensor} :
       m_sensor' = v /\ DrawnAtOnce(PageAt[SampleTickTack], v)
  /\ SampleTickTack' = Counted
  /\ IF Drawing
       THEN /\ nested' = nested + 1 /\ shown' = shown
            /\ renewed' = (m_sensor' # drawing.reading)
       ELSE /\ nested' = nested /\ shown' = PageAt[SampleTickTack]
            /\ renewed' = FALSE
  /\ UNCHANGED <<leds, pwm, loop>>

(* The PWM's timer and its interrupt. *)
Match == Compare0 /\ UNCHANGED <<lcd, leds, loop, SampleTickTack, m_sensor, history>>
PeriodEnd == Compare3 /\ UNCHANGED <<lcd, leds, loop, SampleTickTack, m_sensor, history>>
PwmInterrupt ==
  PWM_IRQHandler /\ UNCHANGED <<lcd, leds, loop, SampleTickTack, m_sensor, history>>

Next == MainLoop \/ Connected \/ Match \/ PeriodEnd \/ PwmInterrupt

Spec == Init /\ [][Next]_vars

(* The main loop goes on, and comes to an end of the handlers, of which there *)
(* is one every three seconds; the timer of the PWM runs, and its interrupt   *)
(* comes.                                                                     *)
FairSpec ==
  /\ Spec /\ WF_vars(MainLoop) /\ SF_vars(rx_buffer_queue)
  /\ WF_vars(Match) /\ WF_vars(PeriodEnd) /\ WF_vars(PwmInterrupt)

-----------------------------------------------------------------------------

TypeOK ==
  /\ cells \in [Rows -> [Columns -> Inks]]
  /\ address \in [row : Rows, column : 0 .. COLUMNS + 11]
  /\ overwrites \in BOOLEAN /\ overdrawn \in BOOLEAN
  /\ drawing \in [picture : Pictures, reading : Readings, glyph : 0 .. 16, row : Rows,
                  step : Steps \cup {"done"}]
  /\ drawing.glyph \in 0 .. Last(drawing.picture)
  /\ lit \in [DOMAIN Pins -> SUBSET {"r", "g", "b"}]
  /\ nested \in Nat /\ shown \in Pictures /\ renewed \in BOOLEAN
  /\ loop \in {"InitFan", "LcdDisplayInit", "app_sched_execute", "show", "draw",
               "rx_buffer_queue", "SmartAdapt"}
  /\ SampleTickTack \in DOMAIN PageAt /\ m_sensor \in Readings \cup {Zeros}

(* Outside of a handler. *)
Settled == loop \in {"app_sched_execute", "rx_buffer_queue", "SmartAdapt"}

(* A drawn page is whole: no part of an earlier picture is left of it, and    *)
(* nothing is out of its place, also when a connection drew in the middle of  *)
(* it and moved the display's address between any two commands or bytes       *)
(* (lcd13232.c:75-81, 141-145).  To spoil it, that must have been another     *)
(* picture, which takes two connections in the course of one drawing, or one  *)
(* in that of the start screen, which is drawn when the phone may connect     *)
(* already (main.c:605-608).                                                  *)
WholePage ==
  Settled /\ (overdrawn => nested <= 1 /\ shown # "ChuShiHua") => ShowsPage(shown)

(* Whatever page it is, it shows the readings that SmartAdapt and the phone   *)
(* are given too, unless they were replaced while it was drawn               *)
(* (main.c:168-173).                                                          *)
ShownIsCurrent ==
  Settled /\ ~overdrawn /\ ~renewed /\ shown # "ChuShiHua" =>
    cells = Picture[shown][m_sensor]

(* Why: while a picture is drawn, the address is where the next command or     *)
(* byte needs it, *)
ColumnSet ==
  CASE drawing.step = "low"  -> address.column \div 16 = Glyph.column \div 16
    [] drawing.step = "data" -> address.column = Glyph.column
    [] drawing.step = "rest" -> address.column = Glyph.column + 1
    [] OTHER -> TRUE

OnTrack == drawing.step = "page" \/ (address.row = drawing.row /\ ColumnSet)

(* or, after a connection, in the last row: in the same columns, in those of   *)
(* the last glyph, or, if this is the last glyph, behind them. *)
LastGlyph == drawing.glyph = Last(drawing.picture)

Astray ==
  /\ address.row = ROWS - 1
  /\ \/ ColumnSet
     \/ address.column >= COLUMNS - (IF LastGlyph /\ drawing.step # "low" THEN 0 ELSE 4)

(* What is still to be written: the glyphs and rows to come, and of this row   *)
(* what is not yet passed, if it goes to the right place; or its last byte, if *)
(* that comes last.                                                            *)
ToCome(r, s) ==
  LET owner == Owner(drawing.picture, s)
  IN  \/ owner > drawing.glyph
      \/ owner = drawing.glyph /\ r > drawing.row
      \/ /\ owner = drawing.glyph /\ r = drawing.row
         /\ \/ OnTrack /\ (drawing.step = "rest" => s # Glyph.column)
            \/ /\ overwrites /\ s = COLUMNS - 1 /\ LastGlyph /\ drawing.step = "rest"
               /\ address.row = drawing.row /\ address.column >= COLUMNS

(* All other cells are as the readings have them. *)
AsDrawn(r, s) ==
  \E v \in IF renewed \/ shown = "ChuShiHua" THEN Readings ELSE {m_sensor} :
    cells[r][s] = Picture[shown][v][r][s]

InDrawing ==
  /\ OnTrack \/ (Astray /\ nested = 1)
  /\ \A r \in Rows : \A s \in Columns : AsDrawn(r, s) \/ ToCome(r, s)

Screen ==
  ~overdrawn => IF Drawing THEN InDrawing
                ELSE loop # "show" => \A r \in Rows : \A s \in Columns : AsDrawn(r, s)

(* The first connection in the course of a page draws it too, the second       *)
(* another one; none draws the start screen.                                   *)
InHandler ==
  /\ Drawing => /\ shown = drawing.picture
                /\ loop \in IF shown = "ChuShiHua" THEN {"InitFan", "LcdDisplayInit"}
                                                   ELSE {"draw"}
  /\ Drawing /\ shown # "ChuShiHua" =>
       /\ renewed = (m_sensor # drawing.reading)
       /\ nested = 0 => PageAt[SampleTickTack] = shown /\ ~renewed
       /\ nested = 1 => PageAt[SampleTickTack] # shown
  /\ Drawing /\ ~overdrawn => nested <= IF shown = "ChuShiHua" THEN 0 ELSE 1
  /\ overdrawn => nested >= 2 \/ shown = "ChuShiHua"
  /\ SampleTickTack # 0 \/ loop \in {"show", "draw"} => m_sensor \in Readings
  /\ shown # "ChuShiHua" => m_sensor \in Readings

OutputsInv == TypeOK /\ PwmInv /\ DutyAsCommanded /\ InHandler /\ Screen

(* The number on the first page, in tenths. *)
ShownPM25 ==
  LET digit(g) == cells[0][Layout["FENchen"][g].column].digit
  IN  100 * digit(3) + 10 * digit(4) + digit(6)

(* When the readings stay, the LEDs come to stay at the colours for them, and *)
(* the first page shows a number of the same colour, below 100: above, its    *)
(* hundreds are missing (car_air_purifier.c:13-36, lcd13232.c:170-176).       *)
ColourOfShown ==
  \A v \in Readings :
    <>[](m_sensor = v) =>
      <>[](/\ lit = [led \in DOMAIN Pins |-> Colours(v)[led]]
           /\ Settled /\ ~overdrawn /\ ~renewed /\ shown = "FENchen" /\ v.pm2_5 < 1000
                => AqiColour(ShownPM25) = lit.AQI_LED)
=============================================================================
