---------------------------- MODULE OutputsProofs ----------------------------
(***************************************************************************)
(* Proofs about Outputs for any number of rows, columns followed, readings  *)
(* and connections: the pages are whole and current, and the pin of the fan *)
(* has the duty that was commanded.                                         *)
(***************************************************************************)
EXTENDS Outputs, TLAPS

USE DEF COLUMNS, Duty

-----------------------------------------------------------------------------

(* The layouts, glyph by glyph.                                              *)
G(column, width) == [column |-> column, width |-> width]

(* The start screen,                                                           *)
LEMMA InitLayout ==
  LET l == Layout["ChuShiHua"]
  IN  /\ Last("ChuShiHua") = 9 /\ DOMAIN l = 1 .. 9
      /\ l[1] = G(0, 32) /\ l[2] = G(32, 32) /\ l[3] = G(64, 32) /\ l[4] = G(97, 4)
      /\ l[5] = G(103, 4) /\ l[6] = G(109, 4) /\ l[7] = G(115, 4) /\ l[8] = G(121, 4)
      /\ l[9] = G(127, 4)
  BY DEF Layout, LcdDisplayInit, Placed, Pictures, Pages, G, Last

(* the time,                                                                   *)
LEMMA TimeLayout ==
  LET l == Layout["SHIjian"]
  IN  /\ Last("SHIjian") = 16 /\ DOMAIN l = 1 .. 16
      /\ l[1] = G(0, 10) /\ l[2] = G(10, 10) /\ l[3] = G(20, 2) /\ l[4] = G(22, 10)
      /\ l[5] = G(32, 10) /\ l[6] = G(42, 2) /\ l[7] = G(44, 10) /\ l[8] = G(54, 10)
      /\ l[9] = G(68, 10) /\ l[10] = G(78, 10) /\ l[11] = G(88, 2) /\ l[12] = G(90, 10)
      /\ l[13] = G(100, 10) /\ l[14] = G(110, 2) /\ l[15] = G(112, 10) /\ l[16] = G(122, 10)
  BY DEF Layout, LcdDisplayTime, Placed, Pictures, Pages, G, Last

(* the gas,                                                                    *)
LEMMA FormaldehydeLayout ==
  LET l == Layout["jiaQUAN"]
  IN  /\ Last("jiaQUAN") = 7 /\ DOMAIN l = 1 .. 7
      /\ l[1] = G(0, 32) /\ l[2] = G(32, 32) /\ l[3] = G(64, 16) /\ l[4] = G(80, 4)
      /\ l[5] = G(84, 16) /\ l[6] = G(100, 16) /\ l[7] = G(116, 16)
  BY DEF Layout, LcdDisplayFormaldehyde, Placed, Pictures, Pages, G, Last

(* and the three pages that are laid out alike.                                *)
LEMMA ReadingLayout ==
  ASSUME NEW p \in {"FENchen", "WENdu", "SHIdu"}
  PROVE  /\ Last(p) = 7 /\ DOMAIN Layout[p] = 1 .. 7
         /\ Layout[p][1] = G(0, 32) /\ Layout[p][2] = G(32, 32) /\ Layout[p][3] = G(64, 16)
         /\ Layout[p][4] = G(80, 16) /\ Layout[p][5] = G(96, 4) /\ Layout[p][6] = G(100, 16)
         /\ Layout[p][7] = G(116, 16)
  BY DEF Layout, LcdDisplayPM25, LcdDisplayTemp, LcdDisplayHumi, Placed, Pictures, Pages, G, Last

(* What they are,                                                             *)
LEMMA Glyphs ==
  ASSUME NEW p \in Pictures
  PROVE  /\ Last(p) \in 1 .. 16 /\ DOMAIN Layout[p] = 1 .. Last(p)
         /\ \A g \in 1 .. Last(p) :
              /\ Layout[p][g].column \in Nat /\ Layout[p][g].column <= 127
              /\ Layout[p][g].width \in Nat /\ Layout[p][g].width >= 2
              /\ Layout[p][g].column + Layout[p][g].width <= COLUMNS
<1> USE DEF G
<1>1. CASE p = "ChuShiHua"
  BY <1>1, InitLayout
<1>2. CASE p = "SHIjian"
  BY <1>2, TimeLayout
<1>3. CASE p = "jiaQUAN"
  BY <1>3, FormaldehydeLayout
<1>4. CASE p \in {"FENchen", "WENdu", "SHIdu"}
  <2>1. Last(p) = 7 /\ DOMAIN Layout[p] = 1 .. 7
    BY <1>4, ReadingLayout
  <2>2. \A g \in 1 .. 7 : /\ Layout[p][g].column \in Nat /\ Layout[p][g].column <= 127
                         /\ Layout[p][g].width \in Nat /\ Layout[p][g].width >= 2
                         /\ Layout[p][g].column + Layout[p][g].width <= COLUMNS
    BY <1>4, ReadingLayout
  <2> QED
    BY <2>1, <2>2
<1> QED
  BY <1>1, <1>2, <1>3, <1>4 DEF Pictures, Pages

(* and that they are disjoint, from left to right.                            *)
LEMMA LeftToRight ==
  ASSUME NEW p \in Pictures, NEW g \in 1 .. Last(p), NEW h \in 1 .. Last(p), g < h
  PROVE  Layout[p][g].column + Layout[p][g].width <= Layout[p][h].column
<1> USE DEF G
<1>1. CASE p = "ChuShiHua"
  BY <1>1, InitLayout
<1>2. CASE p = "SHIjian"
  BY <1>2, TimeLayout, SMTT(60)
<1>3. CASE p = "jiaQUAN"
  BY <1>3, FormaldehydeLayout
<1>4. CASE p \in {"FENchen", "WENdu", "SHIdu"}
  BY <1>4, ReadingLayout
<1> QED
  BY <1>1, <1>2, <1>3, <1>4 DEF Pictures, Pages

(* The last one of a page ends at the last column, and does not begin where    *)
(* the display's address is set to if only its high half is.                   *)
LEMMA LastOfPage ==
  ASSUME NEW p \in Pages
  PROVE  LET last == Layout[p][Last(p)]
         IN  last.column + last.width = COLUMNS /\ last.column <= 128 /\ last.column % 16 >= 4
<1> USE DEF G
<1>1. CASE p = "SHIjian"
  BY <1>1, TimeLayout
<1>2. CASE p = "jiaQUAN"
  BY <1>2, FormaldehydeLayout
<1>3. CASE p \in {"FENchen", "WENdu", "SHIdu"}
  BY <1>3, ReadingLayout
<1> QED
  BY <1>1, <1>2, <1>3 DEF Pages

(* The pages that do not clear the screen cover it.                            *)
LEMMA Covered ==
  ASSUME NEW p \in Pictures, ~Clears(p), NEW s \in 0 .. COLUMNS - 1
  PROVE  \E g \in DOMAIN Layout[p] : Over(p, g, s)
<1> USE DEF G, Over
<1>1. CASE p = "jiaQUAN"
  BY <1>1, FormaldehydeLayout
<1>2. CASE p \in {"FENchen", "WENdu", "SHIdu"}
  BY <1>2, ReadingLayout
<1> QED
  BY <1>1, <1>2 DEF Pictures, Pages, Clears

(* Whose column it is.                                                         *)
LEMMA OwnerOver ==
  ASSUME NEW p \in Pictures, NEW s \in 0 .. COLUMNS - 1
  PROVE  /\ Owner(p, s) \in 0 .. Last(p)
         /\ Owner(p, s) # 0 => Over(p, Owner(p, s), s)
         /\ ~Clears(p) => Owner(p, s) # 0
         /\ \A g \in 1 .. Last(p) : Over(p, g, s) => Owner(p, s) = g
<1>0. Last(p) \in 1 .. 16 /\ DOMAIN Layout[p] = 1 .. Last(p)
  BY Glyphs
<1>1. Owner(p, s) \in 0 .. Last(p) /\ (Owner(p, s) # 0 => Over(p, Owner(p, s), s))
  <2>1. CASE \E g \in DOMAIN Layout[p] : Over(p, g, s)
    BY <1>0, <2>1 DEF Owner
  <2>2. CASE ~\E g \in DOMAIN Layout[p] : Over(p, g, s)
    BY <1>0, <2>2 DEF Owner
  <2> QED
    BY <2>1, <2>2
<1>2. (\E g \in DOMAIN Layout[p] : Over(p, g, s)) => Owner(p, s) # 0
  BY <1>0 DEF Owner
<1>3. ~Clears(p) => Owner(p, s) # 0
  BY <1>2, Covered
<1>4. ASSUME NEW g \in 1 .. Last(p), Over(p, g, s)
      PROVE  Owner(p, s) = g
  <2>1. Owner(p, s) # 0
    BY <1>0, <1>2, <1>4
  <2>2. Over(p, Owner(p, s), s) /\ Owner(p, s) \in 1 .. Last(p)
    BY <1>0, <1>1, <2>1
  <2> DEFINE o == Owner(p, s)
  <2>3. /\ Layout[p][g].column \in Int /\ Layout[p][g].width \in Int
        /\ Layout[p][o].column \in Int /\ Layout[p][o].width \in Int
        /\ g < o => Layout[p][g].column + Layout[p][g].width <= Layout[p][o].column
        /\ o < g => Layout[p][o].column + Layout[p][o].width <= Layout[p][g].column
    BY <2>2, Glyphs, LeftToRight
  <2>4. /\ Layout[p][g].column <= s /\ s < Layout[p][g].column + Layout[p][g].width
        /\ Layout[p][o].column <= s /\ s < Layout[p][o].column + Layout[p][o].width
    BY <1>4, <2>2 DEF Over
  <2>5. ~(g < o)
    BY <2>3, <2>4
  <2>6. ~(o < g)
    BY <2>3, <2>4
  <2> QED
    BY <1>0, <2>2, <2>5, <2>6
<1> QED
  BY <1>1, <1>3, <1>4

(* The last columns of a page are its last glyph's.                            *)
LEMMA LastColumns ==
  ASSUME NEW p \in Pages, NEW s \in 0 .. COLUMNS - 1, s >= COLUMNS - 4
  PROVE  Owner(p, s) = Last(p)
<1>1. p \in Pictures /\ Last(p) \in 1 .. 16
  BY Glyphs DEF Pictures
<1>2. Over(p, Last(p), s)
  <2>1. Last(p) \in 1 .. Last(p)
    BY <1>1
  <2>2. Layout[p][Last(p)].column \in Nat /\ Layout[p][Last(p)].width \in Nat
    BY <1>1, <2>1, Glyphs
  <2> QED
    BY <2>2, LastOfPage DEF Over
<1> QED
  BY <1>1, <1>2, OwnerOver

-----------------------------------------------------------------------------

(* The calls of the driver, as PwmInv has them.                                *)
Calls == [value : {0, Duty}, next : 0 .. 10, seen : SUBSET {"compare0", "compare3"}]

(* The register written at each step, or what it waits for.                    *)
LEMMA Programs ==
  /\ Len(Program(Duty)) = 10
  /\ Program(Duty)[1] = "ppi_disable" /\ Program(Duty)[2] = "CC"
  /\ Program(Duty)[3] = "gpiote_task_config" /\ Program(Duty)[4] = "group_none"
  /\ Program(Duty)[5] = "group_both" /\ Program(Duty)[6] = "chg_disable"
  /\ Program(Duty)[7] = "chg_EN" /\ Program(Duty)[8] = "chg_enable"
  /\ Program(Duty)[9] = "delay" /\ Program(Duty)[10] = "pwm_freq_int_set"
  /\ Len(Program(0)) = 10
  /\ Program(0)[1] = "OUTCLR" /\ Program(0)[2] = "group_none"
  /\ Program(0)[3] = "group_both" /\ Program(0)[4] = "chg_DIS"
  /\ Program(0)[5] = "chg_enable" /\ Program(0)[6] = "delay"
  /\ Program(0)[7] = "CC" /\ Program(0)[8] = "chg_disable"
  /\ Program(0)[9] = "group_none" /\ Program(0)[10] = "gpiote_unconfig"
  BY DEF Program, FromZero, ToZero

(* The next step of a call.                                                  *)
LEMMA StepAfter ==
  ASSUME PwmInv, call.next # 0, NextStep
  PROVE  call' = IF call.next = 10 THEN Returned
                 ELSE [value |-> call.value, next |-> call.next + 1, seen |-> {}]
<1>1. call \in Calls
  BY DEF PwmInv, Calls
<1>2. Len(Program(call.value)) = 10
  BY <1>1, Programs DEF Calls
<1> QED
  BY <1>2, Zenon DEF NextStep

(* The driver at the start.                                                  *)
LEMMA nrf_pwm_initInv ==
  ASSUME nrf_pwm_init
  PROVE  PwmInv
  BY DEF nrf_pwm_init, PwmInv, InStep, BetweenCalls, Returned, Registers

(* The fan is opened, or stays open.                                         *)
LEMMA OpenFanKeeps ==
  ASSUME PwmInv, OpenFan
  PROVE  PwmInv'
<1>0. hw \in Registers /\ call = Returned /\ call.next = 0 /\ InStep /\ BetweenCalls
  BY DEF PwmInv, OpenFan, Returned
<1>1. /\ hw' \in Registers
      /\ hw'.power = TRUE /\ hw'.timer = (IF hw.timer = "stopped" THEN "after" ELSE hw.timer)
      /\ hw'.out = hw.out /\ hw'.gpiote = hw.gpiote /\ hw'.CC0 = hw.CC0 /\ hw'.event3 = hw.event3
      /\ hw'.int = hw.int /\ hw'.ppi = hw.ppi /\ hw'.group = hw.group /\ hw'.task = hw.task
  BY <1>0 DEF OpenFan, Registers
<1>2. InStep'
  BY <1>0, <1>1 DEF InStep
<1>3. CASE hw.CC0 = 120
  <2>1. call' = Returned
    BY <1>0, <1>3 DEF OpenFan, nrf_pwm_set_value
  <2>2. hw.power
    BY <1>0, <1>3 DEF BetweenCalls
  <2>3. BetweenCalls'
    BY <1>0, <1>1, <2>2 DEF BetweenCalls
  <2> QED
    BY <1>1, <1>2, <2>1, <2>3 DEF PwmInv, Returned
<1>4. CASE hw.CC0 # 120
  <2>1. call' = [value |-> Duty, next |-> 1, seen |-> {}]
    BY <1>0, <1>4 DEF OpenFan, nrf_pwm_set_value
  <2>2. ~hw.power
    BY <1>0, <1>4 DEF BetweenCalls
  <2>3. SwitchingOn'
    BY <1>0, <1>1, <2>1, <2>2 DEF BetweenCalls, SwitchingOn
  <2> QED
    BY <1>1, <1>2, <2>1, <2>3 DEF PwmInv
<1> QED
  BY <1>3, <1>4

(* The fan is closed, or stays closed.                                       *)
LEMMA CloseFanKeeps ==
  ASSUME PwmInv, CloseFan
  PROVE  PwmInv'
<1>0. hw \in Registers /\ call = Returned /\ call.next = 0 /\ InStep /\ BetweenCalls
  BY DEF PwmInv, CloseFan, Returned
<1>1. /\ hw' \in Registers
      /\ hw'.power = FALSE /\ hw'.timer = hw.timer
      /\ hw'.out = hw.out /\ hw'.gpiote = hw.gpiote /\ hw'.CC0 = hw.CC0 /\ hw'.event3 = hw.event3
      /\ hw'.int = hw.int /\ hw'.ppi = hw.ppi /\ hw'.group = hw.group /\ hw'.task = hw.task
  BY <1>0 DEF CloseFan, Registers
<1>2. InStep'
  BY <1>0, <1>1 DEF InStep
<1>3. CASE hw.CC0 = 0
  <2>1. call' = Returned
    BY <1>0, <1>3 DEF CloseFan, nrf_pwm_set_value
  <2>2. ~hw.power
    BY <1>0, <1>3 DEF BetweenCalls
  <2>3. BetweenCalls'
    BY <1>0, <1>1, <2>2 DEF BetweenCalls
  <2> QED
    BY <1>1, <1>2, <2>1, <2>3 DEF PwmInv, Returned
<1>4. CASE hw.CC0 # 0
  <2>1. call' = [value |-> 0, next |-> 1, seen |-> {}]
    BY <1>0, <1>4 DEF CloseFan, nrf_pwm_set_value
  <2>2. hw.power
    BY <1>0, <1>4 DEF BetweenCalls
  <2>3. SwitchingOff'
    BY <1>0, <1>1, <2>1, <2>2 DEF BetweenCalls, SwitchingOff, InStep
  <2> QED
    BY <1>1, <1>2, <2>1, <2>3 DEF PwmInv
<1> QED
  BY <1>3, <1>4

(* A register is written on the way from 0 to the duty,                      *)
LEMMA FromZeroKeeps ==
  ASSUME PwmInv, SetRegister, call.value = Duty, call.next # 0
  PROVE  PwmInv'
<1>0. /\ hw \in Registers /\ InStep /\ SwitchingOn
      /\ call \in Calls /\ call.next \in 1 .. 10
  BY DEF PwmInv, Calls
<1> hw' = Write(Program(call.value)[call.next]) /\ NextStep
  BY DEF SetRegister
<1>1. CASE call.next = 1
  <2>1. hw' = [hw EXCEPT !.ppi = @ \ {0, 1}] /\ call' = [value |-> Duty, next |-> 2, seen |-> {}]
    <3>1. Program(call.value)[call.next] = "ppi_disable"
      BY <1>1, Programs
    <3>2. hw' = [hw EXCEPT !.ppi = @ \ {0, 1}]
      BY <1>0, <3>1 DEF Write, InStep
    <3>3. call' = [value |-> Duty, next |-> 2, seen |-> {}]
      BY <1>1, StepAfter
    <3> QED
      BY <3>2, <3>3
  <2>2. hw' \in Registers /\ InStep'
    BY <1>0, <1>1, <2>1 DEF InStep, Registers, SwitchingOn
  <2>3. SwitchingOn'
    BY <1>0, <1>1, <2>1 DEF InStep, Registers, SwitchingOn
  <2> QED
    BY <2>1, <2>2, <2>3 DEF PwmInv
<1>3. CASE call.next = 3
  <2>1. hw' = [hw EXCEPT !.gpiote = "low"] /\ call' = [value |-> Duty, next |-> 4, seen |-> {}]
    <3>1. Program(call.value)[call.next] = "gpiote_task_config"
      BY <1>3, Programs
    <3>2. hw' = [hw EXCEPT !.gpiote = "low"]
      BY <1>0, <3>1 DEF Write, InStep
    <3>3. call' = [value |-> Duty, next |-> 4, seen |-> {}]
      BY <1>3, StepAfter
    <3> QED
      BY <3>2, <3>3
  <2>2. hw' \in Registers /\ InStep'
    BY <1>0, <1>3, <2>1 DEF InStep, Registers, SwitchingOn
  <2>3. SwitchingOn'
    BY <1>0, <1>3, <2>1 DEF InStep, Registers, SwitchingOn
  <2> QED
    BY <2>1, <2>2, <2>3 DEF PwmInv
<1>4. CASE call.next = 4
  <2>1. hw' = [hw EXCEPT !.group = {}] /\ call' = [value |-> Duty, next |-> 5, seen |-> {}]
    <3>1. Program(call.value)[call.next] = "group_none"
      BY <1>4, Programs
    <3>2. hw' = [hw EXCEPT !.group = {}]
      BY <1>0, <3>1 DEF Write, InStep
    <3>3. call' = [value |-> Duty, next |-> 5, seen |-> {}]
      BY <1>4, StepAfter
    <3> QED
      BY <3>2, <3>3
  <2>2. hw' \in Registers /\ InStep'
    BY <1>0, <1>4, <2>1 DEF InStep, Registers, SwitchingOn
  <2>3. SwitchingOn'
    BY <1>0, <1>4, <2>1 DEF InStep, Registers, SwitchingOn
  <2> QED
    BY <2>1, <2>2, <2>3 DEF PwmInv
<1>5. CASE call.next = 5
  <2>1. hw' = [hw EXCEPT !.group = {0, 1}] /\ call' = [value |-> Duty, next |-> 6, seen |-> {}]
    <3>1. Program(call.value)[call.next] = "group_both"
      BY <1>5, Programs
    <3>2. hw' = [hw EXCEPT !.group = {0, 1}]
      BY <1>0, <3>1 DEF Write, InStep
    <3>3. call' = [value |-> Duty, next |-> 6, seen |-> {}]
      BY <1>5, StepAfter
    <3> QED
      BY <3>2, <3>3
  <2>2. hw' \in Registers /\ InStep'
    BY <1>0, <1>5, <2>1 DEF InStep, Registers, SwitchingOn
  <2>3. SwitchingOn'
    BY <1>0, <1>5, <2>1 DEF InStep, Registers, SwitchingOn
  <2> QED
    BY <2>1, <2>2, <2>3 DEF PwmInv
<1>6. CASE call.next = 6
  <2>1. hw' = [hw EXCEPT !.ppi = @ \ {4}] /\ call' = [value |-> Duty, next |-> 7, seen |-> {}]
    <3>1. Program(call.value)[call.next] = "chg_disable"
      BY <1>6, Programs
    <3>2. hw' = [hw EXCEPT !.ppi = @ \ {4}]
      BY <1>0, <3>1 DEF Write, InStep
    <3>3. call' = [value |-> Duty, next |-> 7, seen |-> {}]
      BY <1>6, StepAfter
    <3> QED
      BY <3>2, <3>3
  <2>2. hw' \in Registers /\ InStep'
    BY <1>0, <1>6, <2>1 DEF InStep, Registers, SwitchingOn
  <2>3. SwitchingOn'
    BY <1>0, <1>6, <2>1 DEF InStep, Registers, SwitchingOn
  <2> QED
    BY <2>1, <2>2, <2>3 DEF PwmInv
<1>7. CASE call.next = 7
  <2>1. hw' = [hw EXCEPT !.task = "EN"] /\ call' = [value |-> Duty, next |-> 8, seen |-> {}]
    <3>1. Program(call.value)[call.next] = "chg_EN"
      BY <1>7, Programs
    <3>2. hw' = [hw EXCEPT !.task = "EN"]
      BY <1>0, <3>1 DEF Write, InStep
    <3>3. call' = [value |-> Duty, next |-> 8, seen |-> {}]
      BY <1>7, StepAfter
    <3> QED
      BY <3>2, <3>3
  <2>2. hw' \in Registers /\ InStep'
    BY <1>0, <1>7, <2>1 DEF InStep, Registers, SwitchingOn
  <2>3. SwitchingOn'
    BY <1>0, <1>7, <2>1 DEF InStep, Registers, SwitchingOn
  <2> QED
    BY <2>1, <2>2, <2>3 DEF PwmInv
<1>8. CASE call.next = 8
  <2>1. hw' = [hw EXCEPT !.ppi = @ \cup {4}] /\ call' = [value |-> Duty, next |-> 9, seen |-> {}]
    <3>1. Program(call.value)[call.next] = "chg_enable"
      BY <1>8, Programs
    <3>2. hw' = [hw EXCEPT !.ppi = @ \cup {4}]
      BY <1>0, <3>1 DEF Write, InStep
    <3>3. call' = [value |-> Duty, next |-> 9, seen |-> {}]
      BY <1>8, StepAfter
    <3> QED
      BY <3>2, <3>3
  <2>2. hw' \in Registers /\ InStep'
    BY <1>0, <1>8, <2>1 DEF InStep, Registers, SwitchingOn
  <2>3. SwitchingOn'
    BY <1>0, <1>8, <2>1 DEF InStep, Registers, SwitchingOn
  <2> QED
    BY <2>1, <2>2, <2>3 DEF PwmInv
<1>10. CASE call.next = 10
  <2>1. hw' = [hw EXCEPT !.event3 = FALSE, !.int = TRUE] /\ call' = Returned
    BY <1>0, <1>10, Programs DEF SetRegister, Write, NextStep, InStep
  <2>2. /\ hw' \in Registers
        /\ hw'.out = hw.out /\ hw'.power = hw.power /\ hw'.timer = hw.timer
        /\ hw'.CC0 = hw.CC0 /\ hw'.ppi = hw.ppi /\ hw'.group = hw.group
        /\ hw'.task = hw.task /\ hw'.gpiote = hw.gpiote
        /\ hw'.event3 = FALSE /\ hw'.int = TRUE
    BY <1>0, <2>1 DEF Registers
  <2>4. InStep'
    BY <1>0, <1>10, <2>2 DEF InStep, SwitchingOn
  <2>5. /\ hw.power /\ hw.gpiote # "off" /\ hw.CC0 = 2 * Duty /\ hw.timer # "stopped"
        /\ 0 \in hw.ppi /\ hw.task = "EN" /\ 4 \in hw.ppi /\ hw.group # {}
    BY <1>0, <1>10 DEF SwitchingOn
  <2>3. BetweenCalls'
    BY <2>2, <2>5 DEF BetweenCalls
  <2> QED
    BY <2>1, <2>2, <2>3, <2>4 DEF PwmInv, Returned
<1> QED
  BY <1>0, <1>1, <1>3, <1>4, <1>5, <1>6, <1>7, <1>8, <1>10, Programs DEF SetRegister, AtStep

(* and on the way back.                                                      *)
LEMMA ToZeroKeeps ==
  ASSUME PwmInv, SetRegister, call.value = 0, call.next # 0
  PROVE  PwmInv'
<1>0. /\ hw \in Registers /\ InStep /\ SwitchingOff
      /\ call \in Calls /\ call.next \in 1 .. 10
  BY DEF PwmInv, Calls
<1> hw' = Write(Program(call.value)[call.next]) /\ NextStep
  BY DEF SetRegister
<1>1. CASE call.next = 1
  <2>1. hw' = [hw EXCEPT !.out = FALSE] /\ call' = [value |-> 0, next |-> 2, seen |-> {}]
    <3>1. Program(call.value)[call.next] = "OUTCLR"
      BY <1>1, Programs
    <3>2. hw' = [hw EXCEPT !.out = FALSE]
      BY <1>0, <3>1 DEF Write, InStep
    <3>3. call' = [value |-> 0, next |-> 2, seen |-> {}]
      BY <1>1, StepAfter
    <3> QED
      BY <3>2, <3>3
  <2>2. hw' \in Registers /\ InStep'
    BY <1>0, <1>1, <2>1 DEF InStep, Registers, SwitchingOff
  <2>3. SwitchingOff'
    BY <1>0, <1>1, <2>1 DEF InStep, Registers, SwitchingOff
  <2> QED
    BY <2>1, <2>2, <2>3 DEF PwmInv
<1>2. CASE call.next = 2
  <2>1. hw' = [hw EXCEPT !.group = {}] /\ call' = [value |-> 0, next |-> 3, seen |-> {}]
    <3>1. Program(call.value)[call.next] = "group_none"
      BY <1>2, Programs
    <3>2. hw' = [hw EXCEPT !.group = {}]
      BY <1>0, <3>1 DEF Write, InStep
    <3>3. call' = [value |-> 0, next |-> 3, seen |-> {}]
      BY <1>2, StepAfter
    <3> QED
      BY <3>2, <3>3
  <2>2. hw' \in Registers /\ InStep'
    BY <1>0, <1>2, <2>1 DEF InStep, Registers, SwitchingOff
  <2>3. SwitchingOff'
    BY <1>0, <1>2, <2>1 DEF InStep, Registers, SwitchingOff
  <2> QED
    BY <2>1, <2>2, <2>3 DEF PwmInv
<1>3. CASE call.next = 3
  <2>1. hw' = [hw EXCEPT !.group = {0, 1}] /\ call' = [value |-> 0, next |-> 4, seen |-> {}]
    <3>1. Program(call.value)[call.next] = "group_both"
      BY <1>3, Programs
    <3>2. hw' = [hw EXCEPT !.group = {0, 1}]
      BY <1>0, <3>1 DEF Write, InStep
    <3>3. call' = [value |-> 0, next |-> 4, seen |-> {}]
      BY <1>3, StepAfter
    <3> QED
      BY <3>2, <3>3
  <2>2. hw' \in Registers /\ InStep'
    BY <1>0, <1>3, <2>1 DEF InStep, Registers, SwitchingOff
  <2>3. SwitchingOff'
    BY <1>0, <1>3, <2>1 DEF InStep, Registers, SwitchingOff
  <2> QED
    BY <2>1, <2>2, <2>3 DEF PwmInv
<1>4. CASE call.next = 4
  <2>1. hw' = [hw EXCEPT !.task = "DIS"] /\ call' = [value |-> 0, next |-> 5, seen |-> {}]
    <3>1. Program(call.value)[call.next] = "chg_DIS"
      BY <1>4, Programs
    <3>2. hw' = [hw EXCEPT !.task = "DIS"]
      BY <1>0, <3>1 DEF Write, InStep
    <3>3. call' = [value |-> 0, next |-> 5, seen |-> {}]
      BY <1>4, StepAfter
    <3> QED
      BY <3>2, <3>3
  <2>2. hw' \in Registers /\ InStep'
    BY <1>0, <1>4, <2>1 DEF InStep, Registers, SwitchingOff
  <2>3. SwitchingOff'
    BY <1>0, <1>4, <2>1 DEF InStep, Registers, SwitchingOff
  <2> QED
    BY <2>1, <2>2, <2>3 DEF PwmInv
<1>5. CASE call.next = 5
  <2>1. hw' = [hw EXCEPT !.ppi = @ \cup {4}] /\ call' = [value |-> 0, next |-> 6, seen |-> {}]
    <3>1. Program(call.value)[call.next] = "chg_enable"
      BY <1>5, Programs
    <3>2. hw' = [hw EXCEPT !.ppi = @ \cup {4}]
      BY <1>0, <3>1 DEF Write, InStep
    <3>3. call' = [value |-> 0, next |-> 6, seen |-> {}]
      BY <1>5, StepAfter
    <3> QED
      BY <3>2, <3>3
  <2>2. hw' \in Registers /\ InStep'
    BY <1>0, <1>5, <2>1 DEF InStep, Registers, SwitchingOff
  <2>3. SwitchingOff'
    BY <1>0, <1>5, <2>1 DEF InStep, Registers, SwitchingOff
  <2> QED
    BY <2>1, <2>2, <2>3 DEF PwmInv
<1>8. CASE call.next = 8
  <2>1. hw' = [hw EXCEPT !.ppi = @ \ {4}] /\ call' = [value |-> 0, next |-> 9, seen |-> {}]
    <3>1. Program(call.value)[call.next] = "chg_disable"
      BY <1>8, Programs
    <3>2. hw' = [hw EXCEPT !.ppi = @ \ {4}]
      BY <1>0, <3>1 DEF Write, InStep
    <3>3. call' = [value |-> 0, next |-> 9, seen |-> {}]
      BY <1>8, StepAfter
    <3> QED
      BY <3>2, <3>3
  <2>2. hw' \in Registers /\ InStep'
    BY <1>0, <1>8, <2>1 DEF InStep, Registers, SwitchingOff
  <2>3. SwitchingOff'
    BY <1>0, <1>8, <2>1 DEF InStep, Registers, SwitchingOff
  <2> QED
    BY <2>1, <2>2, <2>3 DEF PwmInv
<1>9. CASE call.next = 9
  <2>1. hw' = [hw EXCEPT !.group = {}] /\ call' = [value |-> 0, next |-> 10, seen |-> {}]
    <3>1. Program(call.value)[call.next] = "group_none"
      BY <1>9, Programs
    <3>2. hw' = [hw EXCEPT !.group = {}]
      BY <1>0, <3>1 DEF Write, InStep
    <3>3. call' = [value |-> 0, next |-> 10, seen |-> {}]
      BY <1>9, StepAfter
    <3> QED
      BY <3>2, <3>3
  <2>2. hw' \in Registers /\ InStep'
    BY <1>0, <1>9, <2>1 DEF InStep, Registers, SwitchingOff
  <2>3. SwitchingOff'
    BY <1>0, <1>9, <2>1 DEF InStep, Registers, SwitchingOff
  <2> QED
    BY <2>1, <2>2, <2>3 DEF PwmInv
<1>10. CASE call.next = 10
  <2>1. hw' = [hw EXCEPT !.gpiote = "off"] /\ call' = Returned
    BY <1>0, <1>10, Programs DEF SetRegister, Write, NextStep, InStep
  <2>2. /\ hw' \in Registers
        /\ hw'.out = hw.out /\ hw'.power = hw.power /\ hw'.timer = hw.timer
        /\ hw'.CC0 = hw.CC0 /\ hw'.ppi = hw.ppi /\ hw'.group = hw.group
        /\ hw'.task = hw.task /\ hw'.gpiote = "off"
        /\ hw'.event3 = hw.event3 /\ hw'.int = hw.int
    BY <1>0, <2>1 DEF Registers
  <2>4. InStep'
    BY <1>0, <1>10, <2>2 DEF InStep, SwitchingOff
  <2>5. ~hw.power /\ hw.CC0 = 0 /\ 4 \notin hw.ppi /\ hw.group = {} /\ ~hw.int
    BY <1>0, <1>10 DEF SwitchingOff
  <2>3. BetweenCalls'
    BY <2>2, <2>5 DEF BetweenCalls
  <2> QED
    BY <2>1, <2>2, <2>3, <2>4 DEF PwmInv, Returned
<1> QED
  BY <1>0, <1>1, <1>2, <1>3, <1>4, <1>5, <1>8, <1>9, <1>10, Programs DEF SetRegister, AtStep

(* The compare value is written, on both ways.                               *)
LEMMA SetCompareKeeps ==
  ASSUME PwmInv, SetCompare
  PROVE  PwmInv'
<1>0. hw \in Registers /\ InStep /\ call \in Calls /\ call.next # 0
  BY DEF PwmInv, Calls, SetCompare, AtStep
<1>1. PICK side \in IF call.value = 0 THEN {"after"} ELSE {"before", "after"} :
        hw' = [hw EXCEPT !.CC0 = 2 * call.value, !.timer = side]
  BY DEF SetCompare
<1>2. CASE call.value = 0
  <2>1. call.next = 7 /\ SwitchingOff
    BY <1>0, <1>2, Programs DEF SetCompare, AtStep, Calls, PwmInv
  <2>2. call' = [value |-> 0, next |-> 8, seen |-> {}]
    BY <1>2, <2>1, StepAfter DEF SetCompare
  <2>0. hw' = [hw EXCEPT !.CC0 = 0, !.timer = "after"]
    BY <1>1, <1>2
  <2>3. /\ hw' \in Registers
        /\ hw'.timer = "after" /\ hw'.gpiote = hw.gpiote /\ hw'.ppi = hw.ppi
        /\ hw'.power = hw.power /\ hw'.out = hw.out /\ hw'.CC0 = 0 /\ hw'.event3 = hw.event3
        /\ hw'.int = hw.int /\ hw'.group = hw.group /\ hw'.task = hw.task
    BY <1>0, <2>0 DEF Registers
  <2>4. InStep' /\ SwitchingOff'
    BY <1>0, <2>1, <2>2, <2>3 DEF InStep, SwitchingOff
  <2> QED
    BY <2>2, <2>3, <2>4 DEF PwmInv
<1>3. CASE call.value = Duty
  <2>1. call.next = 2 /\ SwitchingOn
    BY <1>0, <1>3, Programs DEF SetCompare, AtStep, Calls, PwmInv
  <2>2. call' = [value |-> Duty, next |-> 3, seen |-> {}]
    BY <1>3, <2>1, StepAfter DEF SetCompare
  <2>3. /\ hw' \in Registers
        /\ hw'.timer = side /\ hw'.gpiote = hw.gpiote /\ hw'.ppi = hw.ppi
        /\ hw'.power = hw.power /\ hw'.out = hw.out /\ hw'.CC0 = 2 * Duty /\ hw'.event3 = hw.event3
        /\ hw'.int = hw.int /\ hw'.group = hw.group /\ hw'.task = hw.task
    BY <1>0, <1>1, <1>3 DEF Registers
  <2>4. InStep' /\ SwitchingOn'
    BY <1>0, <1>1, <1>3, <2>1, <2>2, <2>3 DEF InStep, SwitchingOn
  <2> QED
    BY <2>2, <2>3, <2>4 DEF PwmInv
<1> QED
  BY <1>0, <1>2, <1>3 DEF Calls

(* A period is over, on both ways.  The interrupt has come.                  *)
LEMMA DelayedKeeps ==
  ASSUME PwmInv, Delayed, ~IrqPending
  PROVE  PwmInv'
<1>0. /\ hw \in Registers /\ InStep /\ call \in Calls /\ call.next # 0 /\ hw' = hw
      /\ "compare0" \in call.seen /\ "compare3" \in call.seen
  BY DEF PwmInv, Calls, Delayed, AtStep
<1>1. InStep'
  BY <1>0 DEF InStep
<1>2. CASE call.value = 0
  <2>1. call.next = 6 /\ SwitchingOff
    BY <1>0, <1>2, Programs DEF Delayed, AtStep, Calls, PwmInv
  <2>2. call' = [value |-> 0, next |-> 7, seen |-> {}]
    BY <1>2, <2>1, StepAfter DEF Delayed
  <2>3. SwitchingOff'
    BY <1>0, <2>1, <2>2 DEF SwitchingOff, IrqPending
  <2> QED
    BY <1>0, <1>1, <2>2, <2>3 DEF PwmInv
<1>3. CASE call.value = Duty
  <2>1. call.next = 9 /\ SwitchingOn
    BY <1>0, <1>3, Programs DEF Delayed, AtStep, Calls, PwmInv
  <2>2. call' = [value |-> Duty, next |-> 10, seen |-> {}]
    BY <1>3, <2>1, StepAfter DEF Delayed
  <2>3. SwitchingOn'
    BY <1>0, <2>1, <2>2 DEF SwitchingOn
  <2> QED
    BY <1>0, <1>1, <2>2, <2>3 DEF PwmInv
<1> QED
  BY <1>0, <1>2, <1>3 DEF Calls

(* The timer reaches the compare value,                                      *)
LEMMA Compare0Keeps ==
  ASSUME PwmInv, Compare0
  PROVE  PwmInv'
<1>0. hw \in Registers /\ InStep /\ call \in Calls
  BY DEF PwmInv, Calls
<1> DEFINE ppi == IF 4 \notin hw.ppi THEN hw.ppi
                  ELSE IF hw.task = "EN" THEN hw.ppi \cup hw.group ELSE hw.ppi \ hw.group
<1>1. /\ hw' = [hw EXCEPT !.timer = "after", !.gpiote = Toggled(0), !.ppi = ppi]
      /\ hw.timer = "before" \/ (hw.timer = "after" /\ hw.CC0 = 0)
      /\ Seen("compare0")
  BY DEF Compare0
<1>2. Toggled(0) \in {"off", "low", "high"} /\ ppi \in SUBSET {0, 1, 4}
  BY <1>0 DEF Toggled, Registers
<1>3. /\ hw' \in Registers
      /\ hw'.timer = "after" /\ hw'.gpiote = Toggled(0) /\ hw'.ppi = ppi
      /\ hw'.power = hw.power /\ hw'.out = hw.out /\ hw'.CC0 = hw.CC0 /\ hw'.event3 = hw.event3
      /\ hw'.int = hw.int /\ hw'.group = hw.group /\ hw'.task = hw.task
  BY <1>0, <1>1, <1>2 DEF Registers
<1>4. /\ 4 \in ppi <=> 4 \in hw.ppi
      /\ 0 \in ppi <=> 1 \in ppi
      /\ 4 \notin hw.ppi \/ hw.group = {} => (0 \in ppi <=> 0 \in hw.ppi)
      /\ 4 \in hw.ppi /\ hw.group # {} => (0 \in ppi <=> hw.task = "EN")
  BY <1>0 DEF InStep
<1>5. InStep'
  BY <1>0, <1>1, <1>3, <1>4 DEF InStep, Toggled
<1>6. /\ call' \in Calls /\ call'.next = call.next /\ call'.value = call.value
      /\ call.next = 0 => call' = call
      /\ "compare3" \in call'.seen <=> "compare3" \in call.seen
      /\ call'.seen = IF AtStep("delay") THEN call.seen \cup {"compare0"} ELSE call.seen
  BY <1>0, <1>1 DEF Seen, AtStep, Calls
<1>7. CASE call.next = 0
  <2>1. BetweenCalls
    BY <1>7 DEF PwmInv
  <2>2. BetweenCalls'
    BY <1>0, <1>1, <1>3, <1>4, <2>1 DEF BetweenCalls, InStep, Toggled
  <2>3. call' = Returned /\ call'.next = 0
    BY <1>6, <1>7 DEF PwmInv
  <2> QED
    BY <1>3, <1>5, <1>6, <2>2, <2>3 DEF PwmInv, Calls
<1>8. CASE call.next # 0 /\ call.value = 0
  <2>1. SwitchingOff
    BY <1>8 DEF PwmInv
  <2>2. SwitchingOff'
    BY <1>0, <1>1, <1>3, <1>4, <1>6, <2>1 DEF SwitchingOff, InStep, Toggled
  <2> QED
    BY <1>3, <1>5, <1>6, <1>8, <2>2 DEF PwmInv, Calls
<1>9. CASE call.next # 0 /\ call.value = Duty
  <2>1. SwitchingOn
    BY <1>9 DEF PwmInv
  <2>2. call.next = 9 => "compare0" \in call'.seen
    BY <1>6, <1>9, Programs DEF AtStep
  <2>3. /\ 0 \in ppi => call.next \in {1, 9, 10}
        /\ call.next \in {9, 10} => 0 \in ppi
    BY <1>0, <1>4, <2>1 DEF SwitchingOn, Calls
  <2>4. Toggled(0) = "off" <=> hw.gpiote = "off"
    BY DEF Toggled
  <2> HIDE DEF ppi
  <2>5. SwitchingOn'
    BY <1>0, <1>3, <1>4, <1>6, <2>1, <2>2, <2>3, <2>4 DEF SwitchingOn
  <2> QED
    BY <1>3, <1>5, <1>6, <1>9, <2>5 DEF PwmInv, Calls
<1> QED
  BY <1>0, <1>7, <1>8, <1>9 DEF Calls

(* or the end of its period.                                                 *)
LEMMA Compare3Keeps ==
  ASSUME PwmInv, Compare3
  PROVE  PwmInv'
<1>0. hw \in Registers /\ InStep /\ call \in Calls
  BY DEF PwmInv, Calls
<1> DEFINE timer == IF hw.CC0 = 0 THEN "after" ELSE "before"
<1>1. /\ hw' = [hw EXCEPT !.timer = timer, !.gpiote = Toggled(1), !.event3 = hw.int]
      /\ hw.timer = "after" /\ Seen("compare3")
  BY DEF Compare3
<1>2. Toggled(1) \in {"off", "low", "high"}
  BY <1>0 DEF Toggled, Registers
<1>3. /\ hw' \in Registers
      /\ hw'.timer = timer /\ hw'.gpiote = Toggled(1) /\ hw'.ppi = hw.ppi
      /\ hw'.power = hw.power /\ hw'.out = hw.out /\ hw'.CC0 = hw.CC0 /\ hw'.event3 = hw.int
      /\ hw'.int = hw.int /\ hw'.group = hw.group /\ hw'.task = hw.task
  BY <1>0, <1>1, <1>2 DEF Registers
<1>5. InStep'
  BY <1>0, <1>1, <1>3 DEF InStep, Toggled
<1>6. /\ call' \in Calls /\ call'.next = call.next /\ call'.value = call.value
      /\ call.next = 0 => call' = call
      /\ "compare0" \in call'.seen <=> "compare0" \in call.seen
  BY <1>0, <1>1 DEF Seen, AtStep, Calls
<1>7. CASE call.next = 0
  <2>1. BetweenCalls
    BY <1>7 DEF PwmInv
  <2>2. BetweenCalls'
    BY <1>0, <1>1, <1>3, <2>1 DEF BetweenCalls, InStep, Toggled
  <2>3. call' = Returned /\ call'.next = 0
    BY <1>6, <1>7 DEF PwmInv
  <2> QED
    BY <1>3, <1>5, <1>6, <2>2, <2>3 DEF PwmInv, Calls
<1>8. CASE call.next # 0 /\ call.value = 0
  <2>1. SwitchingOff
    BY <1>8 DEF PwmInv
  <2>2. SwitchingOff'
    BY <1>0, <1>1, <1>3, <1>6, <2>1 DEF SwitchingOff, InStep, Toggled
  <2> QED
    BY <1>3, <1>5, <1>6, <1>8, <2>2 DEF PwmInv, Calls
<1>9. CASE call.next # 0 /\ call.value = Duty
  <2>1. SwitchingOn
    BY <1>9 DEF PwmInv
  <2>3. SwitchingOn'
    BY <1>0, <1>1, <1>3, <1>6, <2>1 DEF SwitchingOn, InStep, Toggled
  <2> QED
    BY <1>3, <1>5, <1>6, <1>9, <2>3 DEF PwmInv, Calls
<1> QED
  BY <1>0, <1>7, <1>8, <1>9 DEF Calls

(* The interrupt of the driver.                                              *)
LEMMA PWM_IRQHandlerKeeps ==
  ASSUME PwmInv, PWM_IRQHandler
  PROVE  PwmInv'
<1>0. hw \in Registers /\ InStep /\ call \in Calls /\ call' = call
  BY DEF PwmInv, Calls, PWM_IRQHandler
<1>1. /\ hw' \in Registers /\ hw.int
      /\ hw'.timer = hw.timer /\ hw'.gpiote = hw.gpiote /\ hw'.ppi = hw.ppi \ {4}
      /\ hw'.power = hw.power /\ hw'.out = hw.out /\ hw'.CC0 = hw.CC0 /\ hw'.event3 = FALSE
      /\ hw'.int = FALSE /\ hw'.group = {} /\ hw'.task = hw.task
  BY <1>0 DEF PWM_IRQHandler, IrqPending, Registers
<1>2. InStep'
  BY <1>0, <1>1 DEF InStep
<1>7. CASE call.next = 0
  <2>1. BetweenCalls
    BY <1>7 DEF PwmInv
  <2>2. BetweenCalls'
    BY <1>0, <1>1, <2>1 DEF BetweenCalls, InStep
  <2> QED
    BY <1>0, <1>1, <1>2, <1>7, <2>2 DEF PwmInv, Calls
<1>8. CASE call.next # 0 /\ call.value = 0
  <2>1. SwitchingOff
    BY <1>8 DEF PwmInv
  <2>2. SwitchingOff'
    BY <1>0, <1>1, <2>1 DEF SwitchingOff, InStep
  <2> QED
    BY <1>0, <1>1, <1>2, <1>8, <2>2 DEF PwmInv, Calls
<1>9. CASE call.next # 0 /\ call.value = Duty
  BY <1>1, <1>9 DEF PwmInv, SwitchingOn
<1> QED
  BY <1>0, <1>7, <1>8, <1>9 DEF Calls

(* Between two calls the pin is as commanded.                                *)
LEMMA DutyFollows ==
  ASSUME PwmInv
  PROVE  DutyAsCommanded
<1> SUFFICES ASSUME call = Returned
             PROVE  PwmPin <=> hw.power /\ hw.timer = "before"
  BY DEF DutyAsCommanded
<1>1. BetweenCalls /\ InStep
  BY DEF PwmInv, Returned
<1> QED
  BY <1>1 DEF BetweenCalls, InStep, PwmPin

(* Any step of the driver or of its timer.                                     *)
LEMMA PwmKeeps ==
  ASSUME PwmInv,
         \/ OpenFan \/ CloseFan \/ (PwmMain /\ ~IrqPending) \/ UNCHANGED pwm
         \/ Compare0 \/ Compare3 \/ PWM_IRQHandler
  PROVE  PwmInv'
<1>1. ASSUME SetRegister
      PROVE  PwmInv'
  <2>1. call.next # 0 /\ call.value \in {0, Duty}
    BY <1>1 DEF SetRegister, PwmInv
  <2> QED
    BY <1>1, <2>1, FromZeroKeeps, ToZeroKeeps
<1>2. ASSUME UNCHANGED pwm
      PROVE  PwmInv'
  BY <1>2 DEF pwm, PwmInv, InStep, BetweenCalls, SwitchingOn, SwitchingOff
<1> QED
  BY <1>1, <1>2, OpenFanKeeps, CloseFanKeeps, SetCompareKeeps, DelayedKeeps,
     Compare0Keeps, Compare3Keeps, PWM_IRQHandlerKeeps, Zenon
  DEF PwmMain

-----------------------------------------------------------------------------

(* What a picture shows of a reading at a place.                               *)
LEMMA PictureAt ==
  ASSUME NEW p \in Pictures, NEW v \in Readings, NEW r \in Rows, NEW s \in Columns
  PROVE  Picture[p][v][r][s] = Shows(p, Owner(p, s), v)
  BY DEF Picture

(* The followed columns are columns.                                           *)
LEMMA ColumnsAre ==
  ASSUME NEW s \in Columns
  PROVE  s \in 0 .. COLUMNS - 1 /\ s \in Int /\ 0 <= s /\ s < COLUMNS
<1>1. s \in 0 .. COLUMNS - 1
  BY OutputsAssumption DEF OutputsAssumption
<1> QED
  BY <1>1

(* Ink is ink.                                                                 *)
LEMMA InkType ==
  /\ Blank \in Inks /\ Remains \in Inks
  /\ \A p \in Pictures, v \in Readings, g \in 0 .. 16 : Shows(p, g, v) \in Inks
<1>1. Blank \in Inks /\ Remains \in Inks
  BY DEF Blank, Remains, Inks, Ink, Pictures
<1>2. ASSUME NEW p \in Pictures, NEW v \in Readings, NEW g \in 0 .. 16
      PROVE  Digit(p, g, v) \in 0 .. 9
  <2>1. v.pm2_5 \in Nat /\ v.tvoc \in Nat
    BY OutputsAssumption DEF OutputsAssumption
  <2> QED
    BY <2>1 DEF Digit
<1> QED
  BY <1>1, <1>2 DEF Shows, Ink, Inks

(* The glyph being drawn, while one is.                                        *)
LEMMA GlyphIs ==
  ASSUME TypeOK
  PROVE  /\ drawing.picture \in Pictures /\ drawing.glyph \in Nat
         /\ drawing.glyph <= Last(drawing.picture)
         /\ Last(drawing.picture) \in Nat /\ Last(drawing.picture) \in 1 .. 16
         /\ Glyph.column \in Nat /\ Glyph.column <= 127
         /\ Glyph.width \in Nat /\ Glyph.width >= 2
         /\ Glyph.column + Glyph.width <= COLUMNS
<1>1. drawing.picture \in Pictures /\ drawing.glyph \in 0 .. Last(drawing.picture)
  BY DEF TypeOK
<1>2. Last(drawing.picture) \in 1 .. 16
  BY <1>1, Glyphs
<1>0. drawing.glyph \in Nat /\ drawing.glyph <= Last(drawing.picture) /\ Last(drawing.picture) \in Nat
  BY <1>1, <1>2
<1>3. CASE drawing.glyph = 0
  <2>1. Glyph = [column |-> 0, width |-> COLUMNS]
    BY <1>3 DEF Glyph
  <2>2. Glyph.column = 0 /\ Glyph.width = COLUMNS
    BY <2>1
  <2> QED
    <3>1. Glyph.column \in Nat /\ Glyph.column <= 127
      BY <2>2
    <3>2. Glyph.width \in Nat /\ Glyph.width >= 2
      BY <2>2
    <3>3. Glyph.column + Glyph.width <= COLUMNS
      BY <2>2
    <3> QED
      BY <1>0, <1>1, <1>2, <3>1, <3>2, <3>3
<1>4. CASE drawing.glyph # 0
  <2>1. drawing.glyph \in 1 .. Last(drawing.picture)
    BY <1>1, <1>2, <1>4
  <2>2. Glyph = Layout[drawing.picture][drawing.glyph]
    BY <1>4 DEF Glyph
  <2> QED
    BY <1>0, <1>1, <1>2, <2>1, <2>2, Glyphs
<1> QED
  BY <1>3, <1>4

(* Whose columns are below it,                                                 *)
LEMMA OwnerIs ==
  ASSUME TypeOK, NEW s \in Columns
  PROVE  LET p == drawing.picture
             over == Glyph.column <= s /\ s < Glyph.column + Glyph.width
         IN  /\ Owner(p, s) \in Nat /\ Owner(p, s) <= Last(p)
             /\ drawing.glyph # 0 /\ over => Owner(p, s) = drawing.glyph
             /\ drawing.glyph = Owner(p, s) => over
<1> DEFINE p == drawing.picture
           over == Glyph.column <= s /\ s < Glyph.column + Glyph.width
<1>1. /\ p \in Pictures /\ s \in 0 .. COLUMNS - 1 /\ s \in Int
      /\ drawing.glyph \in 0 .. Last(p) /\ Last(p) \in 1 .. 16
  BY ColumnsAre, Glyphs DEF TypeOK
<1>2. Owner(p, s) \in 0 .. Last(p)
  BY <1>1, OwnerOver
<1>3. CASE drawing.glyph = 0
  <2>1. Glyph = [column |-> 0, width |-> COLUMNS]
    BY <1>3 DEF Glyph
  <2>2. over
    <3>1. Glyph.column = 0 /\ Glyph.width = COLUMNS
      BY <2>1
    <3>2. s \in Int /\ 0 <= s /\ s < COLUMNS
      BY ColumnsAre
    <3> QED
      BY <3>1, <3>2
  <2> QED
    BY <1>1, <1>2, <1>3, <2>2
<1>4. CASE drawing.glyph # 0
  <2>1. drawing.glyph \in 1 .. Last(p)
    BY <1>1, <1>4
  <2>2. over <=> Over(p, drawing.glyph, s)
    BY <1>4 DEF Glyph, Over
  <2>3. over => Owner(p, s) = drawing.glyph
    BY <1>1, <2>1, <2>2, OwnerOver
  <2>4. drawing.glyph = Owner(p, s) => over
    BY <1>1, <1>4, <2>2, OwnerOver
  <2> QED
    BY <1>1, <1>2, <2>3, <2>4
<1> QED
  BY <1>3, <1>4

(* The address, and the rows.                                                  *)
LEMMA AddressIs ==
  ASSUME TypeOK
  PROVE  /\ address = [row |-> address.row, column |-> address.column]
         /\ address.row \in Int /\ address.row \in Rows
         /\ address.column \in Nat /\ address.column <= COLUMNS + 11
         /\ drawing.row \in Int /\ drawing.row \in Rows
         /\ ROWS \in Int /\ ROWS - 1 \in Rows
         /\ \A r \in Rows : r \in Int /\ 0 <= r /\ r <= ROWS - 1
<1>1. ROWS \in Nat \ {0}
  BY OutputsAssumption DEF OutputsAssumption
<1>2. /\ address \in [row : Rows, column : 0 .. COLUMNS + 11] /\ drawing.row \in Rows
  BY DEF TypeOK
<1> QED
  BY <1>1, <1>2 DEF Rows

-----------------------------------------------------------------------------

(* Where data bytes land, those that the last column holds, and those that     *)
(* were meant for where they come to lie.                                      *)
Hit(width, s) == address.column <= s /\ s < address.column + width
Held(width, s) == overwrites /\ s = COLUMNS - 1 /\ address.column + width > COLUMNS
Right(column, width, s) ==
  /\ address.row = drawing.row
  /\ address.column = column \/ (Held(width, s) /\ column + width = COLUMNS)

(* What is being written.                                                      *)
InkNow == Shows(drawing.picture, drawing.glyph, drawing.reading)

(* What a cell holds when bytes have been written.                             *)
LEMMA WrittenAt ==
  ASSUME TypeOK, NEW column, NEW width, NEW r \in Rows, NEW s \in Columns
  PROVE  Written(column, width)[r][s] =
           IF r = address.row /\ (Hit(width, s) \/ Held(width, s))
             THEN IF Right(column, width, s) \/ InkNow = Blank THEN InkNow ELSE Remains
             ELSE cells[r][s]
<1>1. cells \in [Rows -> [Columns -> Inks]]
  BY DEF TypeOK
<1> QED
  BY <1>1 DEF Written, Hit, Held, Right, InkNow

(* A cell with the ink that belongs there is as the readings have it;          *)
LEMMA RightInk ==
  ASSUME TypeOK, InHandler, Drawing, NEW r \in Rows, NEW s \in Columns,
         UNCHANGED <<m_sensor, renewed, shown>>,
         cells'[r][s] = Shows(drawing.picture, Owner(drawing.picture, s), drawing.reading)
  PROVE  AsDrawn(r, s)'
<1>1. drawing.reading \in Readings /\ drawing.picture \in Pictures /\ shown = drawing.picture
  BY DEF TypeOK, InHandler
<1>2. cells'[r][s] = Picture[shown'][drawing.reading][r][s]
  BY <1>1, PictureAt
<1>3. drawing.reading \in IF renewed' \/ shown' = "ChuShiHua" THEN Readings ELSE {m_sensor'}
  BY <1>1 DEF InHandler
<1> QED
  BY <1>2, <1>3, Zenon DEF AsDrawn

(* and so is one that was, and did not change.                                 *)
LEMMA SameInk ==
  ASSUME NEW r \in Rows, NEW s \in Columns, AsDrawn(r, s),
         UNCHANGED <<m_sensor, renewed, shown>>, cells'[r][s] = cells[r][s]
  PROVE  AsDrawn(r, s)'
  BY DEF AsDrawn

(* What the bytes of a row, or the first of them, come to lie on: what they    *)
(* were meant for, or what is still to come.                                   *)
LEMMA BytesLand ==
  ASSUME TypeOK, InHandler, Drawing, ~overdrawn, OnTrack \/ (Astray /\ nested = 1),
         drawing.glyph # 0, NEW column \in Int, NEW width \in Int,
         \/ drawing.step = "data" /\ column = Glyph.column /\ width = 1
         \/ drawing.step = "rest" /\ column = Glyph.column + 1 /\ width = Glyph.width - 1,
         NEW s \in Columns, Hit(width, s) \/ Held(width, s)
  PROVE  LET owner == Owner(drawing.picture, s)
         IN  \/ Right(column, width, s) /\ owner = drawing.glyph
             \/ owner > drawing.glyph
             \/ owner = drawing.glyph /\ address.row > drawing.row
             \/ /\ owner = drawing.glyph /\ address.row = drawing.row
                /\ overwrites /\ s = COLUMNS - 1 /\ LastGlyph
                /\ drawing.step = "data" /\ address.column >= COLUMNS
<1> DEFINE owner == Owner(drawing.picture, s)
           g == drawing.glyph
<1>1. /\ g \in Nat /\ g <= Last(drawing.picture) /\ Last(drawing.picture) \in Nat
      /\ Glyph.column \in Nat /\ Glyph.column <= 127
      /\ Glyph.width \in Nat /\ Glyph.width >= 2
      /\ Glyph.column + Glyph.width <= COLUMNS
  BY GlyphIs
<1>2. /\ address.row \in Int /\ drawing.row \in Int /\ ROWS \in Int
      /\ address.column \in Int /\ drawing.row <= ROWS - 1
      /\ s \in Int /\ 0 <= s /\ s < COLUMNS
  BY AddressIs, ColumnsAre
<1>3. /\ owner \in Nat /\ owner <= Last(drawing.picture)
      /\ Glyph.column <= s /\ s < Glyph.column + Glyph.width => owner = g
  BY OwnerIs
<1>4. /\ width >= 1 /\ Glyph.column <= column /\ column + width <= Glyph.column + Glyph.width
      /\ drawing.step = "rest" => column + width = Glyph.column + Glyph.width
      /\ ColumnSet <=> address.column = column
  BY <1>1, <1>2 DEF ColumnSet
<1>5. CASE ColumnSet
  <2>1. column <= s /\ s < column + width
    BY <1>1, <1>2, <1>4, <1>5 DEF Hit, Held
  <2>2. owner = g
    BY <1>1, <1>2, <1>3, <1>4, <2>1
  <2>3. address.row = drawing.row \/ address.row > drawing.row
    BY <1>2 DEF OnTrack, Astray
  <2> QED
    BY <1>4, <1>5, <2>2, <2>3 DEF Right
<1>6. CASE ~ColumnSet
  <2>1. /\ address.row = ROWS - 1 /\ nested = 1
        /\ address.column >= COLUMNS - 4 /\ (LastGlyph => address.column >= COLUMNS)
    BY <1>2, <1>6 DEF OnTrack, Astray
  <2>2. drawing.picture \in Pages
    BY <2>1 DEF InHandler, TypeOK, Pictures
  <2>3. s >= COLUMNS - 4
    BY <1>2, <2>1 DEF Hit, Held
  <2>4. owner = Last(drawing.picture)
    BY <1>2, <2>2, <2>3, ColumnsAre, LastColumns
  <2>5. CASE ~LastGlyph
    BY <1>1, <2>4, <2>5 DEF LastGlyph
  <2>6. CASE LastGlyph
    <3>1. Held(width, s) /\ owner = g
      BY <1>2, <2>1, <2>4, <2>6 DEF Hit, LastGlyph
    <3>2. Glyph.column + Glyph.width = COLUMNS
      BY <2>2, <2>6, LastOfPage DEF LastGlyph, Glyph
    <3>3. drawing.step = "rest" /\ address.row = drawing.row => Right(column, width, s)
      BY <1>4, <3>1, <3>2 DEF Right
    <3> QED
      BY <1>2, <2>1, <2>6, <3>1, <3>3 DEF Held
  <2> QED
    BY <2>5, <2>6
<1> QED
  BY <1>5, <1>6

(* In the middle of a picture that no other was drawn over.                    *)
Ready == TypeOK /\ InHandler /\ Drawing /\ ~overdrawn /\ InDrawing

(* What no step of a drawing changes.                                          *)
Rest == <<m_sensor, renewed, shown, nested, overwrites, overdrawn>>

(* The next step of the same row.                                              *)
LEMMA ThenIs ==
  ASSUME TypeOK, NEW step \in Steps, Then(step)
  PROVE  /\ drawing'.picture = drawing.picture /\ drawing'.glyph = drawing.glyph
         /\ drawing'.row = drawing.row /\ drawing'.reading = drawing.reading
         /\ drawing'.step = step /\ drawing' # NotDrawing /\ Drawing'
         /\ Glyph' = Glyph /\ (LastGlyph' <=> LastGlyph)
<1>1. /\ drawing'.picture = drawing.picture /\ drawing'.glyph = drawing.glyph
      /\ drawing'.row = drawing.row /\ drawing'.reading = drawing.reading
      /\ drawing'.step = step
  BY DEF TypeOK, Then
<1>2. step # "done"
  BY DEF Steps
<1> QED
  BY <1>1, <1>2 DEF Drawing, NotDrawing, Glyph, LastGlyph

(* A step that leaves the cells keeps them, if what is to come stays so.       *)
LEMMA CellsKept ==
  ASSUME Ready, UNCHANGED <<cells, Rest>>, Drawing',
         OnTrack' \/ (Astray /\ nested = 1)',
         \A r \in Rows : \A s \in Columns : ToCome(r, s) => ToCome(r, s)'
  PROVE  InDrawing'
<1> SUFFICES ASSUME NEW r \in Rows, NEW s \in Columns
             PROVE  AsDrawn(r, s)' \/ ToCome(r, s)'
  BY DEF InDrawing
<1>1. AsDrawn(r, s) \/ ToCome(r, s)
  BY DEF Ready, InDrawing
<1>2. AsDrawn(r, s) => AsDrawn(r, s)'
  BY SameInk DEF Rest
<1> QED
  BY <1>1, <1>2

(* SetLcdAddress, its three commands.                                          *)
LEMMA SetPageKeeps ==
  ASSUME Ready, SetPage, UNCHANGED Rest
  PROVE  InDrawing'
<1>0. TypeOK /\ "high" \in Steps /\ Then("high") /\ drawing.step = "page"
  BY DEF Ready, SetPage, Steps
<1>1. address'.row = drawing.row /\ address'.column = address.column /\ UNCHANGED cells
  BY <1>0, AddressIs DEF SetPage
<1>2. OnTrack' /\ Drawing'
  BY <1>0, <1>1, ThenIs DEF OnTrack, ColumnSet
<1>3. ASSUME NEW r \in Rows, NEW s \in Columns, ToCome(r, s)
      PROVE  ToCome(r, s)'
  BY <1>0, <1>2, <1>3, ThenIs DEF ToCome, Rest
<1> QED
  BY <1>1, <1>2, <1>3, CellsKept

(* The upper half of the column.                                               *)
LEMMA SetHighKeeps ==
  ASSUME Ready, SetHigh, UNCHANGED Rest
  PROVE  InDrawing'
<1>0. TypeOK /\ "low" \in Steps /\ Then("low") /\ drawing.step = "high"
  BY DEF Ready, SetHigh, Steps
<1>1. /\ address'.row = address.row /\ UNCHANGED cells
      /\ address'.column = (Glyph.column \div 16) * 16 + (address.column % 16)
  BY <1>0, AddressIs DEF SetHigh
<1>2. ColumnSet' /\ Drawing'
  <2>1. address.column \in Nat /\ Glyph.column \in Nat
    BY <1>0, AddressIs, GlyphIs
  <2>2. \A a, b \in Nat : ((a \div 16) * 16 + (b % 16)) \div 16 = a \div 16
    OBVIOUS
  <2>3. address'.column \div 16 = Glyph.column \div 16
    BY <1>1, <2>1, <2>2
  <2> QED
    BY <1>0, <2>3, ThenIs DEF ColumnSet
<1>3. OnTrack \/ (Astray /\ nested = 1)
  BY DEF Ready, InDrawing
<1>4. /\ OnTrack => OnTrack'
      /\ Astray /\ nested = 1 => (Astray /\ nested = 1)'
  BY <1>0, <1>1, <1>2, ThenIs DEF OnTrack, Astray, Rest
<1>5. ASSUME NEW r \in Rows, NEW s \in Columns, ToCome(r, s)
      PROVE  ToCome(r, s)'
  BY <1>0, <1>1, <1>4, <1>5, ThenIs DEF ToCome, Rest
<1> QED
  BY <1>1, <1>2, <1>3, <1>4, <1>5, CellsKept

(* The lower half.                                                             *)
LEMMA SetLowKeeps ==
  ASSUME Ready, SetLow, UNCHANGED Rest
  PROVE  InDrawing'
<1>0. TypeOK /\ InHandler /\ "data" \in Steps /\ Then("data") /\ drawing.step = "low" /\ Drawing
  BY DEF Ready, SetLow, Steps
<1>1. /\ address'.row = address.row /\ UNCHANGED cells
      /\ address'.column = (address.column \div 16) * 16 + (Glyph.column % 16)
  BY <1>0, AddressIs DEF SetLow
<1>2. address.column \in Nat /\ address.column <= COLUMNS + 11 /\ Glyph.column \in Nat
  BY <1>0, AddressIs, GlyphIs
<1>3. ColumnSet => ColumnSet'
  <2>1. \A a, b \in Nat : a \div 16 = b \div 16 => (a \div 16) * 16 + (b % 16) = b
    OBVIOUS
  <2>2. ColumnSet => address'.column = Glyph.column
    BY <1>0, <1>1, <1>2, <2>1 DEF ColumnSet
  <2> QED
    BY <1>0, <2>2, ThenIs DEF ColumnSet
<1>4. OnTrack => OnTrack'
  BY <1>0, <1>1, <1>3, ThenIs DEF OnTrack
<1>5. Astray /\ nested = 1 => (Astray /\ nested = 1)'
  <2> SUFFICES ASSUME Astray, nested = 1, ~ColumnSet
               PROVE  address'.column >= COLUMNS - (IF LastGlyph THEN 0 ELSE 4)
    BY <1>0, <1>1, <1>3, ThenIs DEF Astray, Rest
  <2>1. address.column >= 128
    BY <1>0, <1>2 DEF Astray
  <2>2. \A a, b \in Nat : a >= 128 /\ a <= 147 =>
           (a \div 16) * 16 + (b % 16) >= 128 + (b % 16)
    OBVIOUS
  <2>3. address'.column >= 128 + (Glyph.column % 16)
    BY <1>1, <1>2, <2>1, <2>2
  <2>4. LastGlyph => Glyph.column % 16 >= 4
    <3>1. drawing.picture \in Pages
      BY <1>0 DEF InHandler, Ready, TypeOK, Pictures
    <3> QED
      BY <1>0, <3>1, LastOfPage, GlyphIs DEF LastGlyph, Glyph
  <2>5. Glyph.column % 16 \in Nat /\ address'.column \in Int
    BY <1>1, <1>2
  <2> QED
    BY <2>3, <2>4, <2>5
<1>6. ASSUME NEW r \in Rows, NEW s \in Columns, ToCome(r, s)
      PROVE  ToCome(r, s)'
  BY <1>0, <1>1, <1>4, <1>6, ThenIs DEF ToCome, Rest
<1> QED
  BY <1>0, <1>1, <1>4, <1>5, <1>6, ThenIs, CellsKept DEF Ready, InDrawing

(* What is written on a row: each cell is as the readings have it, or is still *)
(* to come by the glyph and row, or is the last one, which the last byte of    *)
(* this row will come to lie on.                                               *)
LEMMA CellWritten ==
  ASSUME Ready, UNCHANGED <<m_sensor, renewed, shown>>,
         NEW column \in Int, NEW width \in Int,
         \/ drawing.step = "data" /\ column = Glyph.column /\ width = 1
         \/ drawing.step = "rest" /\ column = Glyph.column + 1 /\ width = Glyph.width - 1,
         cells' = Written(column, width),
         NEW r \in Rows, r = address.row, NEW s \in Columns, Hit(width, s) \/ Held(width, s)
  PROVE  LET owner == Owner(drawing.picture, s)
         IN  \/ AsDrawn(r, s)'
             \/ owner > drawing.glyph
             \/ owner = drawing.glyph /\ address.row > drawing.row
             \/ /\ owner = drawing.glyph /\ address.row = drawing.row
                /\ overwrites /\ s = COLUMNS - 1 /\ LastGlyph
                /\ drawing.step = "data" /\ address.column >= COLUMNS
<1> DEFINE owner == Owner(drawing.picture, s)
<1>0. /\ TypeOK /\ InHandler /\ Drawing /\ ~overdrawn
      /\ OnTrack \/ (Astray /\ nested = 1)
  BY DEF Ready, InDrawing
<1>1. cells'[r][s] =
        IF Right(column, width, s) \/ InkNow = Blank THEN InkNow ELSE Remains
  BY <1>0, WrittenAt
<1>2. CASE drawing.glyph = 0
  <2>1. cells'[r][s] = Blank /\ InkNow = Blank
    BY <1>1, <1>2 DEF InkNow, Shows
  <2>2. owner \in Nat
    BY <1>0, OwnerIs
  <2>3. CASE owner = 0
    <3>1. cells'[r][s] = Shows(drawing.picture, owner, drawing.reading)
      BY <2>1, <2>3 DEF Shows
    <3> QED
      BY <1>0, <3>1, RightInk
  <2> QED
    BY <1>2, <2>2, <2>3
<1>3. CASE drawing.glyph # 0
  <2>1. Right(column, width, s) /\ owner = drawing.glyph => AsDrawn(r, s)'
    BY <1>0, <1>1, RightInk DEF InkNow
  <2> QED
    BY <1>0, <1>3, <2>1, BytesLand
<1> QED
  BY <1>2, <1>3

(* Where the address is after data bytes.                                      *)
LEMMA AddressAfter ==
  ASSUME TypeOK, ~overdrawn, NEW column, NEW width, WriteData(column, width)
  PROVE  /\ address'.row = address.row
         /\ address'.column = IF address.column + width < COLUMNS
                                THEN address.column + width ELSE COLUMNS
         /\ cells' = Written(column, width)
  BY AddressIs DEF WriteData

(* The first byte of a row.                                                    *)
LEMMA FirstByteKeeps ==
  ASSUME Ready, FirstByte, UNCHANGED Rest
  PROVE  InDrawing'
<1>0. /\ TypeOK /\ InHandler /\ Drawing /\ ~overdrawn /\ drawing.step = "data"
      /\ "rest" \in Steps /\ Then("rest") /\ WriteData(Glyph.column, 1)
      /\ UNCHANGED <<m_sensor, renewed, shown>> /\ UNCHANGED overwrites
      /\ OnTrack \/ (Astray /\ nested = 1)
  BY DEF Ready, FirstByte, Steps, Rest, InDrawing
<1>1. /\ address'.row = address.row /\ cells' = Written(Glyph.column, 1)
      /\ address'.column = IF address.column + 1 < COLUMNS THEN address.column + 1 ELSE COLUMNS
  BY <1>0, AddressAfter
<1>2. /\ address.column \in Int /\ Glyph.column \in Int /\ Glyph.column <= 127
      /\ address.row \in Int /\ drawing.row \in Int
      /\ drawing.glyph \in Nat /\ address'.column \in Int
  BY <1>0, <1>1, AddressIs, GlyphIs
<1>3. OnTrack => OnTrack' /\ address.column = Glyph.column /\ address.row = drawing.row
  BY <1>0, <1>1, <1>2, ThenIs DEF OnTrack, ColumnSet
<1>4. Astray /\ nested = 1 => (Astray /\ nested = 1)'
  <2>1. ColumnSet => ColumnSet'
    BY <1>0, <1>1, <1>2, ThenIs DEF ColumnSet
  <2>2. address.column >= COLUMNS => address'.column >= COLUMNS
    BY <1>1, <1>2
  <2>3. address.column >= COLUMNS - 4 => address'.column >= COLUMNS - 4
    BY <1>1, <1>2
  <2> QED
    BY <1>0, <1>1, <2>1, <2>2, <2>3, ThenIs DEF Astray, Rest
<1>5. ASSUME NEW r \in Rows, NEW s \in Columns
      PROVE  AsDrawn(r, s)' \/ ToCome(r, s)'
  <2> DEFINE owner == Owner(drawing.picture, s)
  <2>0. /\ r \in Int /\ s \in Int /\ s < COLUMNS /\ owner \in Nat
        /\ owner' = owner
    BY <1>0, AddressIs, ColumnsAre, OwnerIs, ThenIs
  <2>1. CASE r = address.row /\ (Hit(1, s) \/ Held(1, s))
    <3>1. \/ AsDrawn(r, s)'
          \/ owner > drawing.glyph
          \/ owner = drawing.glyph /\ r > drawing.row
          \/ /\ owner = drawing.glyph /\ address.row = drawing.row
             /\ overwrites /\ s = COLUMNS - 1 /\ LastGlyph
             /\ address.column >= COLUMNS
      BY <1>0, <1>1, <1>2, <2>1, CellWritten
    <3>2. address.column >= COLUMNS => address'.column >= COLUMNS
      BY <1>1, <1>2
    <3> QED
      BY <1>0, <1>1, <2>0, <2>1, <3>1, <3>2, ThenIs DEF ToCome
  <2>2. CASE ~(r = address.row /\ (Hit(1, s) \/ Held(1, s)))
    <3>1. cells'[r][s] = cells[r][s]
      BY <1>0, <1>1, <2>2, WrittenAt
    <3>2. AsDrawn(r, s) => AsDrawn(r, s)'
      BY <1>0, <3>1, SameInk
    <3>3. OnTrack /\ r = drawing.row => s # Glyph.column
      BY <1>2, <1>3, <2>0, <2>2 DEF Hit
    <3>4. ToCome(r, s) => ToCome(r, s)'
      BY <1>0, <1>3, <2>0, <3>3, ThenIs DEF ToCome
    <3> QED
      BY <3>2, <3>4 DEF Ready, InDrawing
  <2> QED
    BY <2>1, <2>2
<1> QED
  BY <1>0, <1>3, <1>4, <1>5 DEF InDrawing

(* The rest of a row.                                                          *)
LEMMA RestWritten ==
  ASSUME Ready, RestOfRow, UNCHANGED Rest, NEW r \in Rows, NEW s \in Columns
  PROVE  LET owner == Owner(drawing.picture, s)
         IN  \/ AsDrawn(r, s)'
             \/ owner > drawing.glyph
             \/ owner = drawing.glyph /\ r > drawing.row
<1> DEFINE owner == Owner(drawing.picture, s)
           column == Glyph.column + 1
           width == Glyph.width - 1
<1>0. /\ TypeOK /\ InHandler /\ Drawing /\ ~overdrawn /\ drawing.step = "rest"
      /\ WriteData(column, width)
      /\ UNCHANGED <<m_sensor, renewed, shown>>
      /\ OnTrack \/ (Astray /\ nested = 1)
  BY DEF Ready, RestOfRow, Rest, InDrawing
<1>1. cells' = Written(column, width)
  BY <1>0, AddressAfter
<1>2. /\ address.column \in Int /\ Glyph.column \in Int /\ Glyph.width \in Int
      /\ Glyph.width >= 2 /\ address.row \in Int /\ drawing.row \in Int
      /\ s \in Int /\ s < COLUMNS /\ r \in Int /\ column \in Int /\ width \in Int
  BY <1>0, AddressIs, GlyphIs, ColumnsAre
<1>3. CASE r = address.row /\ (Hit(width, s) \/ Held(width, s))
  BY <1>0, <1>1, <1>2, <1>3, CellWritten
<1>4. CASE ~(r = address.row /\ (Hit(width, s) \/ Held(width, s)))
  <2>1. cells'[r][s] = cells[r][s]
    BY <1>0, <1>1, <1>4, WrittenAt
  <2>2. AsDrawn(r, s) => AsDrawn(r, s)'
    BY <1>0, <2>1, SameInk
  <2>3. ~(owner = drawing.glyph /\ r = drawing.row /\ OnTrack /\ s # Glyph.column)
    <3> SUFFICES ASSUME owner = drawing.glyph, r = drawing.row, OnTrack, s # Glyph.column
                 PROVE  FALSE
      OBVIOUS
    <3>1. address.row = r /\ address.column = Glyph.column + 1
      BY <1>0 DEF OnTrack, ColumnSet
    <3>2. Glyph.column <= s /\ s < Glyph.column + Glyph.width
      BY <1>0, OwnerIs
    <3>3. Hit(width, s)
      BY <1>2, <3>1, <3>2 DEF Hit
    <3> QED
      BY <1>4, <3>1, <3>3
  <2>4. ~(r = drawing.row /\ address.row = drawing.row /\ overwrites /\ s = COLUMNS - 1
          /\ address.column >= COLUMNS)
    BY <1>2, <1>4 DEF Held
  <2>5. ToCome(r, s) => owner > drawing.glyph \/ (owner = drawing.glyph /\ r > drawing.row)
    BY <1>0, <2>3, <2>4 DEF ToCome
  <2> QED
    BY <2>2, <2>5 DEF Ready, InDrawing
<1> QED
  BY <1>3, <1>4

(* The rest of a row, and on to the next row or glyph.                         *)
LEMMA RestOfRowKeeps ==
  ASSUME Ready, RestOfRow, UNCHANGED Rest
  PROVE  IF Drawing' THEN InDrawing'
                     ELSE \A r \in Rows : \A s \in Columns : AsDrawn(r, s)'
<1> DEFINE owner(s) == Owner(drawing.picture, s)
<1>0. /\ TypeOK /\ ROWS \in Int /\ drawing.row \in Int /\ drawing.glyph \in Nat
      /\ drawing.glyph <= Last(drawing.picture) /\ Last(drawing.picture) \in Nat
      /\ drawing.row <= ROWS - 1
      /\ \A r \in Rows : r \in Int /\ 0 <= r /\ r <= ROWS - 1
      /\ \A s \in Columns : owner(s) \in Nat /\ owner(s) <= Last(drawing.picture)
  BY AddressIs, GlyphIs, OwnerIs DEF Ready
<1>1. CASE drawing.row < ROWS - 1
  <2>1. drawing' = [drawing EXCEPT !.row = @ + 1, !.step = "page"]
    BY <1>1 DEF RestOfRow
  <2>2. /\ drawing'.picture = drawing.picture /\ drawing'.glyph = drawing.glyph
        /\ drawing'.row = drawing.row + 1 /\ drawing'.step = "page"
    BY <1>0, <2>1 DEF TypeOK
  <2>3. OnTrack' /\ Drawing'
    BY <2>2 DEF OnTrack, Drawing
  <2>4. ASSUME NEW r \in Rows, NEW s \in Columns
        PROVE  AsDrawn(r, s)' \/ ToCome(r, s)'
    <3>1. \/ AsDrawn(r, s)'
          \/ owner(s) > drawing.glyph
          \/ owner(s) = drawing.glyph /\ r > drawing.row
      BY RestWritten
    <3> QED
      BY <1>0, <2>2, <2>3, <3>1 DEF ToCome
  <2> QED
    BY <2>3, <2>4 DEF InDrawing
<1>2. CASE drawing.row = ROWS - 1 /\ drawing.glyph < Last(drawing.picture)
  <2>1. drawing' = [drawing EXCEPT !.glyph = @ + 1, !.row = 0, !.step = "page"]
    BY <1>0, <1>2 DEF RestOfRow
  <2>2. /\ drawing'.picture = drawing.picture /\ drawing'.glyph = drawing.glyph + 1
        /\ drawing'.row = 0 /\ drawing'.step = "page"
    BY <1>0, <2>1 DEF TypeOK
  <2>3. OnTrack' /\ Drawing'
    BY <2>2 DEF OnTrack, Drawing
  <2>4. ASSUME NEW r \in Rows, NEW s \in Columns
        PROVE  AsDrawn(r, s)' \/ ToCome(r, s)'
    <3>1. AsDrawn(r, s)' \/ owner(s) > drawing.glyph
      BY <1>0, <1>2, RestWritten
    <3> QED
      BY <1>0, <2>2, <2>3, <3>1 DEF ToCome
  <2> QED
    BY <2>3, <2>4 DEF InDrawing
<1>3. CASE drawing.row = ROWS - 1 /\ drawing.glyph = Last(drawing.picture)
  <2>1. drawing' = NotDrawing /\ ~Drawing'
    BY <1>0, <1>3 DEF RestOfRow, NotDrawing, Drawing
  <2>2. ASSUME NEW r \in Rows, NEW s \in Columns
        PROVE  AsDrawn(r, s)'
    BY <1>0, <1>3, RestWritten
  <2> QED
    BY <2>1, <2>2
<1> QED
  BY <1>0, <1>1, <1>2, <1>3

-----------------------------------------------------------------------------

(* What is inductive of OutputsInv.                                            *)
Ind == TypeOK /\ PwmInv /\ InHandler /\ Screen

(* All that Screen is about.                                                   *)
Screens == <<cells, address, overwrites, drawing, overdrawn, m_sensor, nested, shown, renewed>>

(* A step that leaves the screen, and what was drawn on it, as they are.       *)
LEMMA ScreenKept ==
  ASSUME Screen, UNCHANGED Screens, loop # "show" \/ loop' = "show"
  PROVE  Screen'
<1>1. /\ Drawing' <=> Drawing
      /\ InDrawing => InDrawing'
  BY DEF Screens, Drawing, InDrawing, OnTrack, Astray, ColumnSet, LastGlyph, Glyph, AsDrawn, ToCome
<1>2. ASSUME NEW r \in Rows, NEW s \in Columns, AsDrawn(r, s)
      PROVE  AsDrawn(r, s)'
  BY <1>2, SameInk DEF Screens
<1> QED
  BY <1>1, <1>2 DEF Screen, Screens

(* No handler or start screen is being drawn in the turns of the main loop.    *)
LEMMA DrawnSomewhere ==
  ASSUME InHandler, Drawing
  PROVE  loop \in {"InitFan", "LcdDisplayInit", "draw"}
  BY DEF InHandler

(* The parts of TypeOK.                                                        *)
LcdTypes ==
  /\ cells \in [Rows -> [Columns -> Inks]]
  /\ address \in [row : Rows, column : 0 .. COLUMNS + 11]
  /\ overwrites \in BOOLEAN /\ overdrawn \in BOOLEAN
  /\ drawing \in [picture : Pictures, reading : Readings, glyph : 0 .. 16, row : Rows,
                  step : Steps \cup {"done"}]
  /\ drawing.glyph \in 0 .. Last(drawing.picture)

(* and the LEDs, the main loop and what is shown.                              *)
LoopTypes ==
  /\ lit \in [DOMAIN Pins -> SUBSET {"r", "g", "b"}]
  /\ nested \in Nat /\ shown \in Pictures /\ renewed \in BOOLEAN
  /\ loop \in {"InitFan", "LcdDisplayInit", "app_sched_execute", "show", "draw",
               "rx_buffer_queue", "SmartAdapt"}
  /\ SampleTickTack \in DOMAIN PageAt /\ m_sensor \in Readings \cup {Zeros}

(* Together they are all of it.                                                *)
LEMMA Types == TypeOK <=> LcdTypes /\ LoopTypes
  BY DEF TypeOK, LcdTypes, LoopTypes

(* Steps that draw nothing, apart from those of the driver.                    *)
Undrawn ==
  /\ UNCHANGED <<lcd, SampleTickTack, history>>
  /\ \/ loop' = loop /\ m_sensor' = m_sensor
     \/ /\ loop = "InitFan" /\ loop' = "LcdDisplayInit" /\ m_sensor' = m_sensor
     \/ /\ loop \notin {"InitFan", "draw", "show"} /\ ~Drawing
        /\ loop' \in {"app_sched_execute", "rx_buffer_queue", "SmartAdapt"} /\ m_sensor' = m_sensor
     \/ /\ loop = "app_sched_execute" /\ loop' = "show" /\ m_sensor' \in Readings
  /\ lit' \in [DOMAIN Pins -> SUBSET {"r", "g", "b"}]

(* Such a step keeps the screen.                                               *)
LEMMA UndrawnKeeps ==
  ASSUME TypeOK, InHandler, Screen, Undrawn
  PROVE  TypeOK' /\ InHandler' /\ Screen'
<1>1. TypeOK'
  <2>1. LcdTypes'
    BY Types DEF LcdTypes, Undrawn, lcd
  <2>2. LoopTypes'
    BY Types DEF LoopTypes, Undrawn, history
  <2> QED
    BY <2>1, <2>2, Types DEF LcdTypes, LoopTypes, TypeOK
<1>2. Drawing' <=> Drawing
  BY DEF Undrawn, lcd, Drawing
<1>3. InHandler'
  BY <1>2, DrawnSomewhere DEF InHandler, Undrawn, lcd, history
<1>4. Screen'
  <2>1. CASE m_sensor' = m_sensor /\ (loop # "show" \/ loop' = "show")
    BY <2>1, ScreenKept DEF Undrawn, lcd, history, Screens
  <2>2. CASE loop = "app_sched_execute" /\ loop' = "show"
    BY <1>2, <2>2, DrawnSomewhere DEF Screen
  <2> QED
    BY <2>1, <2>2 DEF Undrawn
<1> QED
  BY <1>1, <1>3, <1>4

(* The pages, and the counter that goes through them.                          *)
LEMMA PagesInTurn ==
  ASSUME SampleTickTack \in DOMAIN PageAt
  PROVE  /\ PageAt[SampleTickTack] \in Pages
         /\ Counted \in DOMAIN PageAt /\ PageAt[Counted] # PageAt[SampleTickTack]
         /\ "ChuShiHua" \notin Pages
<1>1. /\ DOMAIN PageAt = 0 .. 4
      /\ PageAt[0] = "FENchen" /\ PageAt[1] = "jiaQUAN" /\ PageAt[2] = "WENdu"
      /\ PageAt[3] = "SHIdu" /\ PageAt[4] = "SHIjian"
  BY DEF PageAt, LCD_SHOW_PAGE
<1>2. /\ SampleTickTack = 0 => Counted = 1
      /\ SampleTickTack = 1 => Counted = 2
      /\ SampleTickTack = 2 => Counted = 3
      /\ SampleTickTack = 3 => Counted = 4
      /\ SampleTickTack = 4 => Counted = 0
  BY DEF Counted, LCD_SHOW_PAGE
<1>3. SampleTickTack \in {0, 1, 2, 3, 4}
  BY <1>1
<1> QED
  BY <1>1, <1>2, <1>3 DEF Pages

(* Where a picture begins everything is still to come.                         *)
LEMMA BegunToCome ==
  ASSUME NEW p \in Pictures, NEW v \in Readings, drawing' = Begun(p, v)
  PROVE  /\ drawing'.picture = p /\ drawing'.step = "page" /\ drawing'.row = 0
         /\ drawing' \in [picture : Pictures, reading : Readings, glyph : 0 .. 16, row : Rows,
                          step : Steps \cup {"done"}]
         /\ drawing'.glyph \in 0 .. Last(p)
         /\ drawing'.reading = v
         /\ Drawing' /\ OnTrack'
         /\ \A r \in Rows : \A s \in Columns : ToCome(r, s)'
<1>1. /\ drawing'.picture = p /\ drawing'.step = "page" /\ drawing'.row = 0 /\ drawing'.reading = v
      /\ drawing'.glyph = IF Clears(p) THEN 0 ELSE 1
  BY DEF Begun
<1>2. Drawing' /\ OnTrack'
  BY <1>1 DEF Drawing, OnTrack
<1>3. 0 \in Rows /\ \A r \in Rows : r \in Int /\ 0 <= r
  BY OutputsAssumption DEF OutputsAssumption, Rows
<1>4. Last(p) \in 1 .. 16
  BY Glyphs
<1>5. /\ drawing'.glyph \in 0 .. Last(p)
      /\ drawing' \in [picture : Pictures, reading : Readings, glyph : 0 .. 16, row : Rows,
                       step : Steps \cup {"done"}]
  BY <1>1, <1>3, <1>4 DEF Begun, Steps
<1>6. ASSUME NEW r \in Rows, NEW s \in Columns
      PROVE  ToCome(r, s)'
  <2>1. Owner(p, s) \in Nat /\ (~Clears(p) => Owner(p, s) # 0)
    <3>1. s \in 0 .. COLUMNS - 1
      BY ColumnsAre
    <3> QED
      BY <3>1, <1>4, OwnerOver
  <2> QED
    BY <1>1, <1>2, <1>3, <2>1 DEF ToCome
<1> QED
  BY <1>1, <1>2, <1>5, <1>6

(* The start screen is to be drawn on a cleared display.                       *)
LEMMA InitInv == Init => Ind
<1> SUFFICES ASSUME Init
             PROVE  Ind
  OBVIOUS
<1> DEFINE v == CHOOSE w \in Readings : TRUE
<1>1. v \in Readings
  BY OutputsAssumption DEF OutputsAssumption
<1>2. "ChuShiHua" \in Pictures /\ Clears("ChuShiHua") /\ 0 \in DOMAIN PageAt
  BY DEF Pictures, Clears, PageAt, LCD_SHOW_PAGE
<1>3. 0 \in Rows /\ ROWS - 1 \in Rows /\ \A r \in Rows : r \in Int /\ 0 <= r
  BY OutputsAssumption DEF OutputsAssumption, Rows
<1>4. /\ drawing.picture = "ChuShiHua" /\ drawing.step = "page" /\ drawing.row = 0
      /\ drawing.glyph = 0 /\ drawing.reading = v
      /\ drawing \in [picture : Pictures, reading : Readings, glyph : 0 .. 16, row : Rows,
                      step : Steps \cup {"done"}]
  BY <1>1, <1>2, <1>3 DEF Init, LcdInit, Begun, Steps
<1>5. LcdTypes
  <2>1. cells \in [Rows -> [Columns -> Inks]]
    BY InkType DEF Init, LcdInit, Everywhere
  <2>2. address \in [row : Rows, column : 0 .. COLUMNS + 11]
    BY <1>3 DEF Init, LcdInit
  <2>3. drawing.glyph \in 0 .. Last(drawing.picture)
    BY <1>2, <1>4, Glyphs
  <2> QED
    BY <1>4, <2>1, <2>2, <2>3 DEF LcdTypes, Init, LcdInit
<1>6. LoopTypes
  BY <1>2 DEF LoopTypes, Init, LedsInit, Pins
<1>7. Drawing /\ OnTrack
  BY <1>4 DEF Drawing, OnTrack
<1>8. InHandler
  BY <1>4, <1>7 DEF InHandler, Init, LcdInit
<1>9. Screen
  <2>1. ASSUME NEW r \in Rows, NEW s \in Columns
        PROVE  AsDrawn(r, s) \/ ToCome(r, s)
    <3>1. Owner("ChuShiHua", s) \in Nat
      <4>1. s \in 0 .. COLUMNS - 1 /\ Last("ChuShiHua") \in 1 .. 16
        BY <1>2, ColumnsAre, Glyphs
      <4> QED
        BY <1>2, <4>1, OwnerOver
    <3>2. CASE Owner("ChuShiHua", s) = 0
      <4>1. Picture["ChuShiHua"][v][r][s] = Blank
        BY <1>1, <1>2, <3>2, PictureAt DEF Shows
      <4>2. cells[r][s] = Blank /\ shown = "ChuShiHua"
        BY DEF Init, LcdInit, Everywhere
      <4> QED
        BY <1>1, <4>1, <4>2 DEF AsDrawn
    <3> QED
      BY <1>4, <3>1, <3>2 DEF ToCome
  <2> QED
    BY <1>7, <2>1 DEF Screen, InDrawing
<1> QED
  BY <1>5, <1>6, <1>8, <1>9, Types, nrf_pwm_initInv DEF Init, Ind

(* A page is begun.                                                            *)
LEMMA LcdDisplaySensorDataKeeps ==
  ASSUME TypeOK, InHandler, LcdDisplaySensorData
  PROVE  TypeOK' /\ InHandler' /\ Screen'
<1> DEFINE p == PageAt[SampleTickTack]
<1>1. /\ p \in Pages /\ p \in Pictures /\ m_sensor \in Readings /\ p # "ChuShiHua"
  BY PagesInTurn DEF TypeOK, InHandler, LcdDisplaySensorData, Goto, Pictures
<1>2. /\ drawing' = Begun(p, m_sensor) /\ cells' = Everywhere(Remains) /\ overdrawn' = FALSE
      /\ UNCHANGED <<address, overwrites>> /\ shown' = p /\ nested' = 0 /\ renewed' = FALSE
      /\ loop' = "draw" /\ UNCHANGED <<SampleTickTack, m_sensor, lit>>
  BY DEF LcdDisplaySensorData, Draw, Goto, leds
<1>3. /\ drawing'.picture = p /\ drawing'.reading = m_sensor /\ Drawing' /\ OnTrack'
      /\ drawing' \in [picture : Pictures, reading : Readings, glyph : 0 .. 16, row : Rows,
                       step : Steps \cup {"done"}]
      /\ drawing'.glyph \in 0 .. Last(p)
      /\ \A r \in Rows : \A s \in Columns : ToCome(r, s)'
  BY <1>1, <1>2, BegunToCome
<1>4. TypeOK'
  <2>1. cells' \in [Rows -> [Columns -> Inks]]
    BY <1>2, InkType DEF Everywhere
  <2>2. LcdTypes'
    BY <1>2, <1>3, <2>1 DEF LcdTypes, TypeOK
  <2>3. LoopTypes'
    BY <1>1, <1>2 DEF LoopTypes, TypeOK
  <2> QED
    BY <2>2, <2>3 DEF LcdTypes, LoopTypes, TypeOK
<1>5. InHandler'
  <2>1. PageAt[SampleTickTack'] = shown' /\ shown' = drawing'.picture
    BY <1>2, <1>3
  <2>2. renewed' = (m_sensor' # drawing'.reading)
    BY <1>2, <1>3
  <2>3. m_sensor' \in Readings /\ ~overdrawn' /\ nested' = 0 /\ loop' = "draw" /\ ~renewed'
    BY <1>1, <1>2
  <2>4. shown' # "ChuShiHua" /\ nested' # 1 /\ nested' <= 1
    BY <1>1, <1>2
  <2> HIDE DEF p
  <2> QED
    BY <2>1, <2>2, <2>3, <2>4 DEF InHandler
<1>6. Screen'
  BY <1>3 DEF Screen, InDrawing
<1> QED
  BY <1>4, <1>5, <1>6

(* The page is counted.                                                        *)
LEMMA CountPageKeeps ==
  ASSUME TypeOK, InHandler, Screen, CountPage
  PROVE  TypeOK' /\ InHandler' /\ Screen'
<1>1. /\ loop = "draw" /\ loop' = "app_sched_execute" /\ ~Drawing /\ SampleTickTack' = Counted
      /\ UNCHANGED <<Screens, lit>> /\ Counted \in DOMAIN PageAt
  BY PagesInTurn DEF CountPage, Goto, TypeOK, Screens, lcd, leds, history
<1>2. TypeOK'
  <2>1. LcdTypes'
    BY <1>1 DEF LcdTypes, TypeOK, Screens
  <2>2. LoopTypes'
    BY <1>1 DEF LoopTypes, TypeOK, Screens
  <2> QED
    BY <2>1, <2>2 DEF LcdTypes, LoopTypes, TypeOK
<1>3. InHandler'
  BY <1>1 DEF InHandler, Screens, Drawing
<1> QED
  BY <1>1, <1>2, <1>3, ScreenKept

(* The halves of a column that the commands set.                               *)
LEMMA Halves ==
  ASSUME NEW a \in Nat, NEW b \in Nat, a <= COLUMNS + 11
  PROVE  (a \div 16) * 16 + (b % 16) \in 0 .. COLUMNS + 11
<1>1. a \div 16 \in Nat /\ a \div 16 <= 8
  OBVIOUS
<1>2. b % 16 \in Nat /\ b % 16 <= 15
  OBVIOUS
<1> QED
  BY <1>1, <1>2

(* The types while a picture is drawn.                                         *)
LEMMA WrittenType ==
  ASSUME TypeOK, NEW column, NEW width
  PROVE  Written(column, width) \in [Rows -> [Columns -> Inks]]
<1>1. /\ cells \in [Rows -> [Columns -> Inks]] /\ drawing.picture \in Pictures
      /\ drawing.reading \in Readings /\ drawing.glyph \in 0 .. 16
  BY DEF TypeOK
<1>2. Shows(drawing.picture, drawing.glyph, drawing.reading) \in Inks /\ Remains \in Inks
  BY <1>1, InkType
<1> DEFINE row == Written(column, width)[address.row]
<1>3. Written(column, width) = [cells EXCEPT ![address.row] =
         [s \in Columns |-> IF Hit(width, s) \/ Held(width, s)
             THEN IF Right(column, width, s) \/ InkNow = Blank THEN InkNow ELSE Remains
             ELSE @[s]]]
  BY DEF Written, Hit, Held, Right, InkNow
<1>4. [s \in Columns |-> IF Hit(width, s) \/ Held(width, s)
             THEN IF Right(column, width, s) \/ InkNow = Blank THEN InkNow ELSE Remains
             ELSE cells[address.row][s]] \in [Columns -> Inks]
  BY <1>1, <1>2, AddressIs DEF InkNow
<1> QED
  BY <1>1, <1>3, <1>4

(* Bytes leave ink in the cells and the address on the display.                *)
LEMMA WriteDataTypes ==
  ASSUME TypeOK, NEW column, NEW width \in Nat, WriteData(column, width)
  PROVE  /\ cells' \in [Rows -> [Columns -> Inks]]
         /\ address' \in [row : Rows, column : 0 .. COLUMNS + 11]
<1>1. cells' \in [Rows -> [Columns -> Inks]]
  BY WrittenType DEF WriteData, TypeOK
<1>2. address.column \in Nat /\ address.row \in Rows
  BY AddressIs
<1>3. (IF address.column + width < COLUMNS THEN address.column + width ELSE COLUMNS)
        \in 0 .. COLUMNS + 11
  BY <1>2
<1>4. address' \in [row : Rows, column : 0 .. COLUMNS + 11]
  BY <1>2, <1>3 DEF WriteData, TypeOK
<1> QED
  BY <1>1, <1>4

(* So does each step of the drawing.                                           *)
LEMMA DrawingTypes ==
  ASSUME TypeOK, DrawStep
  PROVE  LcdTypes'
<1>0. /\ LcdTypes /\ UNCHANGED <<overwrites, overdrawn>>
      /\ Glyph.column \in Nat /\ Glyph.column <= 127 /\ Glyph.width \in Nat /\ Glyph.width >= 2
      /\ drawing.row \in Rows /\ address.column \in Nat /\ address.column <= COLUMNS + 11
      /\ address.row \in Rows
  BY GlyphIs, AddressIs, Types DEF DrawStep
<1>1. ASSUME NEW step \in Steps, Then(step)
      PROVE  /\ drawing' \in [picture : Pictures, reading : Readings, glyph : 0 .. 16, row : Rows,
                              step : Steps \cup {"done"}]
             /\ drawing'.glyph \in 0 .. Last(drawing'.picture)
  BY <1>0, <1>1 DEF Then, LcdTypes
<1>2. CASE SetPage
  <2>1. Then("high") /\ "high" \in Steps
    BY <1>2 DEF SetPage, Steps
  <2>2. address' \in [row : Rows, column : 0 .. COLUMNS + 11] /\ UNCHANGED cells
    BY <1>0, <1>2 DEF SetPage, LcdTypes
  <2> QED
    BY <1>0, <1>1, <2>1, <2>2 DEF LcdTypes
<1>3. CASE SetHigh
  <2>1. Then("low") /\ "low" \in Steps
    BY <1>3 DEF SetHigh, Steps
  <2>2. (Glyph.column \div 16) * 16 + (address.column % 16) \in 0 .. COLUMNS + 11
    BY <1>0, Halves
  <2>3. address' \in [row : Rows, column : 0 .. COLUMNS + 11] /\ UNCHANGED cells
    BY <1>0, <1>3, <2>2 DEF SetHigh, LcdTypes
  <2> QED
    BY <1>0, <1>1, <2>1, <2>3 DEF LcdTypes
<1>4. CASE SetLow
  <2>1. Then("data") /\ "data" \in Steps
    BY <1>4 DEF SetLow, Steps
  <2>2. (address.column \div 16) * 16 + (Glyph.column % 16) \in 0 .. COLUMNS + 11
    BY <1>0, Halves
  <2>3. address' \in [row : Rows, column : 0 .. COLUMNS + 11] /\ UNCHANGED cells
    BY <1>0, <1>4, <2>2 DEF SetLow, LcdTypes
  <2> QED
    BY <1>0, <1>1, <2>1, <2>3 DEF LcdTypes
<1>5. CASE FirstByte
  <2>1. Then("rest") /\ "rest" \in Steps /\ WriteData(Glyph.column, 1)
    BY <1>5 DEF FirstByte, Steps
  <2> QED
    BY <1>0, <1>1, <2>1, WriteDataTypes DEF LcdTypes
<1>6. CASE RestOfRow
  <2>1. WriteData(Glyph.column + 1, Glyph.width - 1) /\ Glyph.width - 1 \in Nat
    BY <1>0, <1>6 DEF RestOfRow
  <2>2. /\ drawing' \in [picture : Pictures, reading : Readings, glyph : 0 .. 16, row : Rows,
                         step : Steps \cup {"done"}]
        /\ drawing'.glyph \in 0 .. Last(drawing'.picture)
    <3>1. /\ drawing.glyph \in Nat /\ drawing.glyph <= Last(drawing.picture)
          /\ Last(drawing.picture) \in 1 .. 16 /\ drawing.picture \in Pictures
          /\ drawing.reading \in Readings
      BY <1>0, GlyphIs DEF LcdTypes
    <3>2. 0 \in Rows /\ (drawing.row < ROWS - 1 => drawing.row + 1 \in Rows)
      BY <1>0, AddressIs, OutputsAssumption DEF OutputsAssumption, Rows
    <3>3. CASE drawing.row < ROWS - 1
      <4>1. drawing' = [drawing EXCEPT !.row = @ + 1, !.step = "page"]
        BY <1>6, <3>3 DEF RestOfRow
      <4> QED
        BY <1>0, <3>2, <3>3, <4>1 DEF LcdTypes, Steps
    <3>4. CASE ~(drawing.row < ROWS - 1) /\ drawing.glyph < Last(drawing.picture)
      <4>1. drawing' = [drawing EXCEPT !.glyph = @ + 1, !.row = 0, !.step = "page"]
        BY <1>6, <3>4 DEF RestOfRow
      <4>2. drawing.glyph + 1 \in 0 .. 16 /\ drawing.glyph + 1 \in 0 .. Last(drawing.picture)
        BY <3>1, <3>4
      <4> QED
        BY <1>0, <3>2, <4>1, <4>2 DEF LcdTypes, Steps
    <3>5. CASE ~(drawing.row < ROWS - 1) /\ ~(drawing.glyph < Last(drawing.picture))
      <4>1. drawing' = NotDrawing
        BY <1>6, <3>5 DEF RestOfRow
      <4>2. (CHOOSE v \in Readings : TRUE) \in Readings /\ "ChuShiHua" \in Pictures
        BY OutputsAssumption DEF OutputsAssumption, Pictures
      <4>3. Last("ChuShiHua") \in 1 .. 16
        BY <4>2, Glyphs
      <4> QED
        BY <3>2, <4>1, <4>2, <4>3 DEF NotDrawing
    <3> QED
      BY <3>3, <3>4, <3>5
  <2> QED
    BY <1>0, <2>1, <2>2, WriteDataTypes DEF LcdTypes
<1> QED
  BY <1>2, <1>3, <1>4, <1>5, <1>6 DEF DrawStep

(* A step of the drawing.                                                      *)
LEMMA DrawPictureKeeps ==
  ASSUME TypeOK, InHandler, Screen, DrawPicture
  PROVE  TypeOK' /\ InHandler' /\ Screen'
<1>1. /\ DrawStep /\ Drawing
      /\ UNCHANGED <<Rest, lit, SampleTickTack, loop>> /\ overwrites' = overwrites
  BY DEF DrawPicture, DrawStep, SetPage, SetHigh, SetLow, FirstByte, RestOfRow, Drawing, leds,
         history, Rest
<1>2. TypeOK'
  <2>1. LoopTypes'
    BY <1>1, Types DEF LoopTypes, Rest
  <2> QED
    BY <1>1, <2>1, DrawingTypes DEF LcdTypes, LoopTypes, TypeOK
<1>3. Drawing' => drawing'.picture = drawing.picture /\ drawing'.reading = drawing.reading
  <2>1. ASSUME NEW step \in Steps, Then(step)
        PROVE  drawing'.picture = drawing.picture /\ drawing'.reading = drawing.reading
    BY <2>1, ThenIs
  <2>2. CASE SetPage \/ SetHigh \/ SetLow \/ FirstByte
    <3>1. \E step \in Steps : Then(step)
      BY <2>2 DEF SetPage, SetHigh, SetLow, FirstByte, Steps
    <3> QED
      BY <2>1, <3>1
  <2>3. CASE RestOfRow
    <3>1. CASE drawing' = NotDrawing
      BY <3>1 DEF Drawing, NotDrawing
    <3>2. CASE drawing' = [drawing EXCEPT !.row = @ + 1, !.step = "page"]
      BY <3>2, Types DEF LcdTypes
    <3>3. CASE drawing' = [drawing EXCEPT !.glyph = @ + 1, !.row = 0, !.step = "page"]
      BY <3>3, Types DEF LcdTypes
    <3> QED
      BY <2>3, <3>1, <3>2, <3>3 DEF RestOfRow
  <2> QED
    BY <1>1, <2>2, <2>3 DEF DrawStep
<1>4. InHandler'
  BY <1>1, <1>3 DEF InHandler, Rest
<1>5. Screen'
  <2>1. CASE overdrawn
    BY <1>1, <2>1 DEF Screen, Rest
  <2>2. CASE ~overdrawn
    <3>1. Ready
      BY <1>1, <2>2 DEF Ready, Screen
    <3>2. CASE RestOfRow
      BY <1>1, <3>1, <3>2, RestOfRowKeeps DEF Screen
    <3>3. CASE SetPage \/ SetHigh \/ SetLow \/ FirstByte
      <4>1. InDrawing'
        BY <1>1, <3>1, <3>3, SetPageKeeps, SetHighKeeps, SetLowKeeps, FirstByteKeeps
      <4>2. Drawing'
        BY <3>3, ThenIs DEF SetPage, SetHigh, SetLow, FirstByte, Steps
      <4> QED
        BY <4>1, <4>2 DEF Screen
    <3> QED
      BY <1>1, <3>2, <3>3 DEF DrawStep
  <2> QED
    BY <2>1, <2>2
<1> QED
  BY <1>2, <1>4, <1>5

(* A connection draws the page whose turn it is.                               *)
LEMMA ConnectedKeeps ==
  ASSUME TypeOK, InHandler, Screen, Connected
  PROVE  TypeOK' /\ InHandler' /\ Screen'
<1> DEFINE p == PageAt[SampleTickTack]
<1>1. /\ p \in Pages /\ p \in Pictures /\ p # "ChuShiHua"
      /\ SampleTickTack' = Counted /\ Counted \in DOMAIN PageAt /\ PageAt[Counted] # p
      /\ m_sensor' \in Readings /\ DrawnAtOnce(p, m_sensor')
      /\ UNCHANGED <<lit, loop, drawing, overwrites>>
  BY PagesInTurn DEF TypeOK, InHandler, Connected, Pictures, DrawnAtOnce, leds
<1>2. /\ overdrawn' = (Drawing /\ (overdrawn \/ p # drawing.picture))
      /\ cells' = IF overdrawn' THEN Everywhere(Remains) ELSE Picture[p][m_sensor']
      /\ address' = [row |-> ROWS - 1, column |-> COLUMNS]
      /\ Drawing' <=> Drawing
  BY <1>1 DEF DrawnAtOnce, Drawing
<1>3. IF Drawing
        THEN /\ nested' = nested + 1 /\ shown' = shown
             /\ renewed' = (m_sensor' # drawing.reading)
        ELSE /\ nested' = nested /\ shown' = p /\ renewed' = FALSE
  BY DEF Connected
<1>4. TypeOK'
  <2>1. cells' \in [Rows -> [Columns -> Inks]]
    <3>1. Picture[p][m_sensor'] \in [Rows -> [Columns -> Inks]]
      <4>1. \A s \in Columns : Owner(p, s) \in 0 .. 16
        <5> SUFFICES ASSUME NEW s \in Columns
                     PROVE  Owner(p, s) \in 0 .. 16
          OBVIOUS
        <5>1. s \in 0 .. COLUMNS - 1 /\ Last(p) \in 1 .. 16
          BY <1>1, ColumnsAre, Glyphs
        <5>2. Owner(p, s) \in 0 .. Last(p)
          BY <1>1, <5>1, OwnerOver
        <5> QED
          BY <5>1, <5>2
      <4>2. Picture[p][m_sensor'] = [r \in Rows |-> [s \in Columns |-> Shows(p, Owner(p, s), m_sensor')]]
        BY <1>1 DEF Picture
      <4> QED
        BY <1>1, <4>1, <4>2, InkType
    <3> QED
      BY <1>2, <3>1, InkType DEF Everywhere
  <2>2. address' \in [row : Rows, column : 0 .. COLUMNS + 11]
    BY <1>2, AddressIs
  <2>3. overdrawn' \in BOOLEAN
    BY <1>2
  <2>4. LcdTypes'
    BY <1>1, <2>1, <2>2, <2>3, Types DEF LcdTypes
  <2>5. nested' \in Nat /\ shown' \in Pictures /\ renewed' \in BOOLEAN
    <3> HIDE DEF p
    <3>1. nested \in Nat /\ shown \in Pictures
      BY DEF TypeOK
    <3>2. CASE Drawing
      BY <1>3, <3>1, <3>2
    <3>3. CASE ~Drawing
      BY <1>1, <1>3, <3>1, <3>3
    <3> QED
      BY <3>2, <3>3
  <2>6. LoopTypes'
    BY <1>1, <2>5, Types DEF LoopTypes
  <2> QED
    BY <2>4, <2>6 DEF LcdTypes, LoopTypes, TypeOK
<1>5. nested \in Nat /\ overdrawn \in BOOLEAN
  BY DEF TypeOK
<1>6. CASE ~Drawing
  <2>1. ~overdrawn' /\ ~Drawing' /\ shown' = p /\ cells' = Picture[p][m_sensor']
    BY <1>2, <1>3, <1>6
  <2>2. InHandler'
    BY <1>1, <2>1 DEF InHandler
  <2>3. Screen'
    BY <1>1, <2>1 DEF Screen, AsDrawn
  <2> QED
    BY <1>4, <2>2, <2>3
<1>7. CASE Drawing
  <2>1. /\ nested' = nested + 1 /\ shown' = shown /\ renewed' = (m_sensor' # drawing.reading)
        /\ shown = drawing.picture /\ Drawing'
        /\ overdrawn' <=> overdrawn \/ p # shown
    BY <1>2, <1>3, <1>7 DEF InHandler
  <2>2. InHandler'
    <3>1. CASE shown = "ChuShiHua"
      BY <1>1, <1>7, <2>1, <3>1 DEF InHandler
    <3>2. CASE shown # "ChuShiHua"
      <4>1. overdrawn => nested >= 2
        BY <3>2 DEF InHandler
      <4>2. p # shown => nested # 0
        BY <1>7, <3>2 DEF InHandler
      <4>3. p = shown => nested # 1
        BY <1>7, <3>2 DEF InHandler
      <4>4. ~overdrawn => nested <= 1
        BY <1>7, <3>2 DEF InHandler
      <4>5. overdrawn' => nested' >= 2
        BY <1>5, <2>1, <4>1, <4>2
      <4>6. ~overdrawn' => nested' <= 1
        BY <1>5, <2>1, <4>3, <4>4
      <4>7. nested' # 0 /\ (nested' = 1 => PageAt[SampleTickTack'] # shown')
        BY <1>1, <1>5, <2>1, <4>2
      <4>8. loop' = "draw" /\ shown' = drawing'.picture /\ renewed' = (m_sensor' # drawing'.reading)
        BY <1>1, <1>7, <2>1, <3>2 DEF InHandler
      <4> QED
        BY <1>1, <2>1, <3>2, <4>5, <4>6, <4>7, <4>8 DEF InHandler
    <3> QED
      BY <3>1, <3>2
  <2>3. Screen'
    <3> SUFFICES ASSUME ~overdrawn'
                 PROVE  InDrawing'
      BY <2>1 DEF Screen
    <3>1. p = shown /\ ~overdrawn /\ cells' = Picture[p][m_sensor']
      BY <1>2, <2>1
    <3>2. nested' = 1
      <4>1. nested <= 1 /\ nested # 1
        BY <1>1, <1>7, <3>1 DEF InHandler
      <4> QED
        BY <1>5, <2>1, <4>1
    <3>3. Astray'
      BY <1>2 DEF Astray
    <3>4. ASSUME NEW r \in Rows, NEW s \in Columns
          PROVE  AsDrawn(r, s)'
      BY <1>1, <2>1, <3>1 DEF AsDrawn
    <3> QED
      BY <3>2, <3>3, <3>4 DEF InDrawing
  <2> QED
    BY <1>4, <2>2, <2>3
<1> QED
  BY <1>6, <1>7

-----------------------------------------------------------------------------

(* An LED is opened in a colour of the pins it has.                            *)
LEMMA OpenLedType ==
  ASSUME TypeOK, NEW led \in DOMAIN Pins, NEW colour, OpenLed(led, colour)
  PROVE  lit' \in [DOMAIN Pins -> SUBSET {"r", "g", "b"}]
<1>1. Pins[led] \subseteq {"r", "g", "b"}
  BY DEF Pins
<1>2. lit \in [DOMAIN Pins -> SUBSET {"r", "g", "b"}]
  BY DEF TypeOK
<1>3. colour \cap Pins[led] \in SUBSET {"r", "g", "b"}
  BY <1>1
<1> QED
  BY <1>2, <1>3 DEF OpenLed

(* The steps of the main loop that draw nothing.                               *)
LEMMA MainLoopUndrawn ==
  ASSUME TypeOK, InHandler,
         \/ InitFan \/ FanOpened \/ SwitchFan \/ InitShown \/ sample_start_handler
         \/ rx_buffer_queue \/ Adapt \/ OpenLeds \/ NextTurn
  PROVE  Undrawn
<1>1. lit \in [DOMAIN Pins -> SUBSET {"r", "g", "b"}]
  BY DEF TypeOK
<1>2. CASE InitFan \/ SwitchFan
  BY <1>1, <1>2 DEF InitFan, SwitchFan, Undrawn, leds
<1>3. CASE FanOpened
  BY <1>1, <1>3 DEF FanOpened, Goto, Undrawn, leds
<1>4. CASE InitShown
  BY <1>1, <1>4 DEF InitShown, Goto, Undrawn, leds
<1>5. CASE sample_start_handler
  BY <1>1, <1>5 DEF sample_start_handler, Goto, Undrawn, leds, InHandler
<1>6. CASE rx_buffer_queue
  BY <1>1, <1>6, DrawnSomewhere DEF rx_buffer_queue, Goto, Undrawn, leds
<1>7. CASE Adapt
  BY <1>1, <1>7, DrawnSomewhere DEF Adapt, SmartAdapt, Goto, Undrawn
<1>8. CASE OpenLeds
  <2>1. lit' \in [DOMAIN Pins -> SUBSET {"r", "g", "b"}]
    BY <1>8, OpenLedType DEF OpenLeds, AdaptAqi, AdaptWarn, Pins
  <2> QED
    BY <1>8, <2>1 DEF OpenLeds, Undrawn
<1>9. CASE NextTurn
  BY <1>1, <1>9, DrawnSomewhere DEF NextTurn, Goto, Undrawn, leds
<1> QED
  BY <1>2, <1>3, <1>4, <1>5, <1>6, <1>7, <1>8, <1>9

(* and those of the driver's interrupt and timer.                              *)
LEMMA TimerUndrawn ==
  ASSUME TypeOK, Match \/ PeriodEnd \/ PwmInterrupt \/ UNCHANGED vars
  PROVE  Undrawn
<1>1. /\ UNCHANGED <<lcd, SampleTickTack, history>> /\ loop' = loop /\ m_sensor' = m_sensor
      /\ lit' = lit
  BY DEF Match, PeriodEnd, PwmInterrupt, vars, leds
<1> QED
  BY <1>1 DEF Undrawn, TypeOK

(* What a step may do to the driver.                                           *)
LEMMA PwmSteps ==
  ASSUME [Next]_vars
  PROVE  \/ OpenFan \/ CloseFan \/ (PwmMain /\ ~IrqPending) \/ UNCHANGED pwm
         \/ Compare0 \/ Compare3 \/ PWM_IRQHandler
<1>1. CASE MainLoop
  <2>1. CASE InitFan
    BY <2>1 DEF InitFan
  <2>2. CASE SwitchFan
    BY <1>1, <2>2 DEF SwitchFan, MainLoop
  <2>3. CASE rx_buffer_queue
    BY <2>3 DEF rx_buffer_queue
  <2>4. CASE FanOpened \/ InitShown \/ sample_start_handler \/ LcdDisplaySensorData
    BY <2>4 DEF FanOpened, InitShown, sample_start_handler, LcdDisplaySensorData
  <2>5. CASE DrawPicture \/ CountPage \/ Adapt \/ OpenLeds \/ NextTurn
    BY <2>5 DEF DrawPicture, CountPage, Adapt, OpenLeds, NextTurn
  <2> QED
    BY <1>1, <2>1, <2>2, <2>3, <2>4, <2>5 DEF MainLoop
<1>2. CASE Connected
  BY <1>2 DEF Connected
<1>3. CASE Match \/ PeriodEnd \/ PwmInterrupt
  BY <1>3 DEF Match, PeriodEnd, PwmInterrupt
<1>4. CASE UNCHANGED vars
  BY <1>4 DEF vars
<1> QED
  BY <1>1, <1>2, <1>3, <1>4 DEF Next

(* Every step keeps the types, the driver's registers in step, and the screen. *)
LEMMA NextKeeps == Ind /\ [Next]_vars => Ind'
<1> SUFFICES ASSUME Ind, [Next]_vars
             PROVE  Ind'
  OBVIOUS
<1> USE DEF Ind
<1>1. PwmInv'
  BY PwmSteps, PwmKeeps
<1>2. CASE Undrawn
  BY <1>1, <1>2, UndrawnKeeps
<1>3. CASE MainLoop
  <2>1. CASE LcdDisplaySensorData
    BY <1>1, <2>1, LcdDisplaySensorDataKeeps
  <2>2. CASE DrawPicture
    BY <1>1, <2>2, DrawPictureKeeps
  <2>3. CASE CountPage
    BY <1>1, <2>3, CountPageKeeps
  <2> QED
    BY <1>2, <1>3, <2>1, <2>2, <2>3, MainLoopUndrawn DEF MainLoop
<1>4. CASE Connected
  BY <1>1, <1>4, ConnectedKeeps
<1>5. CASE Match \/ PeriodEnd \/ PwmInterrupt \/ UNCHANGED vars
  BY <1>2, <1>5, TimerUndrawn
<1> QED
  BY <1>3, <1>4, <1>5 DEF Next

(* Outside of a handler nothing is being drawn, and the cells are as drawn.    *)
LEMMA SettledAsDrawn ==
  ASSUME Ind, Settled, ~overdrawn
  PROVE  \A r \in Rows : \A s \in Columns : AsDrawn(r, s)
  BY DrawnSomewhere DEF Ind, Settled, Screen

(* The page is whole: what was drawn over was the start screen, or drawn over  *)
(* by a second connection.                                                     *)
LEMMA PageWhole == Ind => WholePage
<1> SUFFICES ASSUME Ind, Settled, overdrawn => nested <= 1 /\ shown # "ChuShiHua"
             PROVE  ShowsPage(shown)
  BY DEF WholePage
<1>1. ~overdrawn
  <2>1. nested \in Nat /\ (overdrawn => nested >= 2 \/ shown = "ChuShiHua")
    BY DEF Ind, TypeOK, InHandler
  <2> QED
    BY <2>1
<1>2. ASSUME NEW r \in Rows, NEW s \in Columns
      PROVE  \E v \in Readings : cells[r][s] = Picture[shown][v][r][s]
  <2>1. AsDrawn(r, s)
    BY <1>1, SettledAsDrawn
  <2>2. shown = "ChuShiHua" \/ m_sensor \in Readings
    BY DEF Ind, InHandler
  <2> QED
    BY <2>1, <2>2 DEF AsDrawn
<1> QED
  BY <1>2 DEF ShowsPage

(* Cell by cell it shows the present readings.                                 *)
LEMMA PageCurrent == Ind => ShownIsCurrent
<1> SUFFICES ASSUME Ind, Settled, ~overdrawn, ~renewed, shown # "ChuShiHua"
             PROVE  cells = Picture[shown][m_sensor]
  BY DEF ShownIsCurrent
<1> DEFINE page == Picture[shown][m_sensor]
<1>1. cells \in [Rows -> [Columns -> Inks]] /\ shown \in Pictures /\ m_sensor \in Readings
  BY DEF Ind, TypeOK, InHandler
<1>2. page = [r \in Rows |-> [s \in Columns |-> Shows(shown, Owner(shown, s), m_sensor)]]
  BY <1>1 DEF Picture
<1>3. ASSUME NEW r \in Rows
      PROVE  cells[r] = page[r]
  <2>1. ASSUME NEW s \in Columns
        PROVE  cells[r][s] = page[r][s]
    BY SettledAsDrawn DEF AsDrawn
  <2>2. cells[r] = [s \in Columns |-> cells[r][s]]
    BY <1>1
  <2>3. page[r] = [s \in Columns |-> page[r][s]]
    BY <1>2
  <2> HIDE DEF page
  <2> QED
    BY <2>1, <2>2, <2>3
<1>4. cells = [r \in Rows |-> cells[r]]
  BY <1>1
<1>5. page = [r \in Rows |-> page[r]]
  BY <1>2
<1> HIDE DEF page
<1>6. cells = page
  BY <1>3, <1>4, <1>5
<1> QED
  BY <1>6 DEF page

(* The last digit of a number, and what is before it.                          *)
LEMMA LastDigit ==
  ASSUME NEW n \in Nat
  PROVE  \E q \in Nat, r \in 0 .. 9 : q = n \div 10 /\ r = n % 10 /\ n = 10 * q + r
  OBVIOUS

(* The digits of a number below 1000 are the number; above, its thousands are  *)
(* missing.                                                                    *)
LEMMA DigitsAreNumber ==
  ASSUME NEW n \in Nat, NEW x, NEW y, NEW z,
         x = (n \div 100) % 10, y = (n \div 10) % 10, z = n % 10
  PROVE  100 * x + 10 * y + z = n % 1000
<1>1. PICK tens \in Nat, c \in 0 .. 9 : tens = n \div 10 /\ c = n % 10 /\ n = 10 * tens + c
  BY LastDigit
<1>2. PICK hundreds \in Nat, b \in 0 .. 9 : b = tens % 10 /\ tens = 10 * hundreds + b
  BY LastDigit
<1>3. PICK thousands \in Nat, a \in 0 .. 9 :
        a = hundreds % 10 /\ hundreds = 10 * thousands + a
  BY LastDigit
<1>4. n \div 100 = hundreds
  <2>1. n = 100 * hundreds + (10 * b + c) /\ 10 * b + c \in 0 .. 99
    BY <1>1, <1>2
  <2> QED
    BY <2>1
<1>5. n % 1000 = 100 * a + 10 * b + c
  <2>1. /\ n = 1000 * thousands + (100 * a + 10 * b + c)
        /\ 100 * a + 10 * b + c \in 0 .. 999
    BY <1>1, <1>2, <1>3
  <2> QED
    BY <2>1
<1>6. x = a /\ y = b /\ z = c
  BY <1>1, <1>2, <1>3, <1>4, Zenon
<1> QED
  BY <1>5, <1>6

(* A digit of the first page, in the row and column where its glyph begins.    *)
LEMMA DigitShown ==
  ASSUME Ind, Settled, ~overdrawn, ~renewed, shown = "FENchen", NEW g \in {3, 4, 6}
  PROVE  cells[0][Layout["FENchen"][g].column].digit = Digit("FENchen", g, m_sensor)
<1> DEFINE s == Layout["FENchen"][g].column
<1>1. /\ g \in 1 .. Last("FENchen") /\ g \in DOMAIN Layout["FENchen"]
      /\ s \in 0 .. COLUMNS - 1 /\ Over("FENchen", g, s)
  BY ReadingLayout DEF G, Over, COLUMNS
<1>2. s \in Columns /\ 0 \in Rows
  BY <1>1, OutputsAssumption DEF Rows
<1>3. Owner("FENchen", s) = g
  BY <1>1, OwnerOver DEF Pictures, Pages
<1>4. cells = Picture["FENchen"][m_sensor] /\ m_sensor \in Readings
  BY PageCurrent DEF ShownIsCurrent, Ind, InHandler
<1>5. cells[0][s] = Shows("FENchen", g, m_sensor)
  BY <1>2, <1>3, <1>4 DEF Picture, Pictures, Pages
<1> QED
  BY <1>5 DEF Shows, Ink

(* So the first page reads as the sensor does.                                 *)
LEMMA NumberShown ==
  ASSUME Ind, Settled, ~overdrawn, ~renewed, shown = "FENchen"
  PROVE  ShownPM25 = m_sensor.pm2_5 % 1000
<1>1. m_sensor.pm2_5 \in Nat
  BY OutputsAssumption DEF Ind, InHandler
<1>2. /\ Digit("FENchen", 3, m_sensor) = (m_sensor.pm2_5 \div 100) % 10
      /\ Digit("FENchen", 4, m_sensor) = (m_sensor.pm2_5 \div 10) % 10
      /\ Digit("FENchen", 6, m_sensor) = m_sensor.pm2_5 % 10
  BY DEF Digit
<1> DEFINE shows(g) == cells[0][Layout["FENchen"][g].column].digit
<1>3. ShownPM25 = 100 * shows(3) + 10 * shows(4) + shows(6)
  BY Zenon DEF ShownPM25
<1>4. \A g \in {3, 4, 6} : shows(g) = Digit("FENchen", g, m_sensor)
  BY DigitShown
<1> HIDE DEF shows
<1>5. /\ shows(3) = (m_sensor.pm2_5 \div 100) % 10
      /\ shows(4) = (m_sensor.pm2_5 \div 10) % 10
      /\ shows(6) = m_sensor.pm2_5 % 10
  BY <1>2, <1>4
<1>6. 100 * shows(3) + 10 * shows(4) + shows(6) = m_sensor.pm2_5 % 1000
  BY <1>1, <1>5, DigitsAreNumber
<1> QED
  BY <1>3, <1>6, Zenon

-----------------------------------------------------------------------------

(* So it holds for ever.                                                       *)
LEMMA SpecInd == Spec => []Ind
<1>1. Ind /\ [Next]_vars => Ind'
  BY NextKeeps
<1> QED
  BY InitInv, <1>1, PTL DEF Spec

(* The screen, its address and what is still to be written, and the registers  *)
(* of the PWM driver, hold together at every command, byte, event and register *)
(* write, and the pin shows the duty commanded (lcd13232.c:43-148,             *)
(* nrf_pwm_noglitch.c:201-259).                                                *)
THEOREM OutputsInvariant == Spec => []OutputsInv
<1>1. Ind => OutputsInv
  BY DutyFollows DEF Ind, OutputsInv
<1> QED
  BY SpecInd, <1>1, PTL

(* A drawn page is whole, whatever commands and bytes of it a connection's     *)
(* drawing came between (lcd13232.c:75-81, 141-145, main.c:605-608).           *)
THEOREM PagesAreWhole == Spec => []WholePage
  BY SpecInd, PageWhole, PTL

(* It shows the readings that SmartAdapt and the phone are given               *)
(* (main.c:168-173).                                                           *)
THEOREM ShowsCurrent == Spec => []ShownIsCurrent
  BY SpecInd, PageCurrent, PTL

(* On a page of dust that was drawn undisturbed one reads the value that       *)
(* SmartAdapt chooses the colour of the LED by, modulo 100 ug/m3: its hundreds *)
(* are not drawn, and from there on the two may differ (lcd13232.c:170-176,    *)
(* car_air_purifier.c:13-36).                                                  *)
THEOREM DustReadsAsMeasured ==
  Spec => [](Settled /\ ~overdrawn /\ ~renewed /\ shown = "FENchen" =>
               /\ ShownPM25 = m_sensor.pm2_5 % 1000
               /\ m_sensor.pm2_5 < 1000 => AqiColour(ShownPM25) = AqiColour(m_sensor.pm2_5))
<1>1. ASSUME Ind, Settled, ~overdrawn, ~renewed, shown = "FENchen"
      PROVE  /\ ShownPM25 = m_sensor.pm2_5 % 1000
             /\ m_sensor.pm2_5 < 1000 => AqiColour(ShownPM25) = AqiColour(m_sensor.pm2_5)
  <2>1. m_sensor.pm2_5 \in Nat /\ ShownPM25 = m_sensor.pm2_5 % 1000
    BY <1>1, NumberShown, OutputsAssumption DEF Ind, InHandler
  <2>2. m_sensor.pm2_5 < 1000 => ShownPM25 = m_sensor.pm2_5
    BY <2>1
  <2> QED
    BY <2>1, <2>2
<1> QED
  BY SpecInd, <1>1, PTL
=============================================================================
