------------------------- MODULE MCSynccomRegisters -------------------------
(* SynccomRegisters for TLC.  The .cfg files give the other constants their *)
(* values.                                                                  *)
EXTENDS SynccomRegisters, TLC

CONSTANTS c1, c2, CCR0, STAR

MCStruct == << STAR, CCR0, FCR >>
MCOneBit == {<< 0, 0 >>, << 1, 0 >>}
Setting(ccr0, fcr) ==
  [r \in Registers |->
     IF r = CCR0 THEN ccr0 ELSE IF r = FCR THEN fcr ELSE Keep]

MCFirmwareBytes == << 1, 16 >>
Driving == [rest |-> 0, lines |-> {"clk"}]
MCGiven == {Setting(Idle(1), Idle(1)),
            [Setting(Keep, Driving) EXCEPT ![STAR] = Idle(1)]}
MCAsked == {{CCR0, FCR}}
MCLeftovers == {Idle(0), [rest |-> 1, lines |-> {"clk", "strb"}]}
MCDefaultBits == << 1, 1 >>
=============================================================================
