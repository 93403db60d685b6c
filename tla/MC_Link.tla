------------------------------ MODULE MC_Link ------------------------------
EXTENDS Link

MCEyes == {{}, {-1, 0}, {0, 1, 2}}
MCSetupChain == [bbpll |-> 983040, rx |-> <<245760, 122880, 61440, 30720, 30720>>,
                 tx |-> <<122880, 122880, 61440, 30720, 30720>>]
MCSetupDelay == [clk |-> 0, data |-> 2]
Profile6144 == [bbpll |-> 983040, rx |-> <<245760, 122880, 61440, 61440, 61440>>,
                tx |-> <<245760, 122880, 61440, 61440, 61440>>]
MCConfigs == {[factor |-> 1, taps |-> 32, chain |-> Profile6144],
              [factor |-> 2, taps |-> 128, chain |-> NoChain]}
\* The second is refused: its data clock is none of the clocks.
MCPathClks == {Profile6144, [SetupChain EXCEPT !.rx[5] = 15000]}

\* The scale is out of range.
MCTones == [freq |-> {3000}, phase |-> {0}, scale |-> {-1200}]
NoTones == [freq |-> {}, phase |-> {}, scale |-> {}]

MCWide == {Skews}
MCByFour == {[factor |-> 4, taps |-> 64, chain |-> NoChain]}
=============================================================================
