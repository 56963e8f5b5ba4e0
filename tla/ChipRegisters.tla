--------------------------- MODULE ChipRegisters ----------------------------
(***************************************************************************)
(* The registers of the CY7C67200 as cy7c67200.h describes them.  The      *)
(* header was put together from several, each with names of its own for    *)
(* the same bits and addresses, as masks, as bit numbers, as position and  *)
(* size, or as an offset from a base.  Each definition here is one         *)
(* vocabulary of the header for one register: what a thing is called       *)
(* there, and the cells it takes, bits of the register or bytes of the     *)
(* chip.  The vocabularies are whole: but for the values of a field and    *)
(* the _MSK of a register, zero for all, which name no cells, and masks of *)
(* all fields at once (bmISR_ALL, HPI_ROUTE_EN), everything the header     *)
(* defines for the register is there.                                      *)
(* What is the same has the same name in all vocabularies: a field under   *)
(* another prefix, what a cell is when read and when written or to a host  *)
(* and to a device, and the parts of a number.  Registers with one field   *)
(* of one name are left out: nobody could disagree.                        *)
(***************************************************************************)
EXTENDS Integers, Sequences, TLC

CONSTANT MaxWrites  \* bound: writes to one register

Bits(mask) == {b \in 0..15 : (mask \div 2^b) % 2 = 1}
Masks(m) == [f \in DOMAIN m |-> Bits(m[f])]
BitNumbers(n) == [f \in DOMAIN n |-> {n[f]}]
Sized(pos, siz) == pos .. pos + siz - 1
AsWords(a) == [r \in DOMAIN a |-> {a[r], a[r] + 1}]
Ints(n) == AsWords([r \in DOMAIN n |-> 2 * n[r]])
Of(unit, v) == [k \in {unit} \X DOMAIN v |-> v[k[2]]]
-----------------------------------------------------------------------------
\* Interrupts of the chip's own processor, and its other control registers.
CPU_FLAGS == Masks([GLOBAL_IRQ |-> \h10, NEG |-> \h8, OVF |-> \h4, CARRY |-> \h2, ZERO |-> \h1])
IRQ_EN ==
  Masks([OTG |-> \h1000, SPI |-> \h800, SIE2 |-> \h200, SIE1 |-> \h100, HSS |-> \h80, MBX_IN |-> \h40,
         MBX_OUT |-> \h20, DMA |-> \h10, UART |-> \h8, GPIO |-> \h4, TMR1 |-> \h2, TMR0 |-> \h1])
bmINT_EN ==
  Masks([TMR0 |-> \h1, TMR1 |-> \h2, GPIO |-> \h4, UART |-> \h8, DMA |-> \h10, MBX_OUT |-> \h20,
         MBX_IN |-> \h40, HSS |-> \h80, SIE1 |-> \h100, SIE2 |-> \h200, SPI |-> \h800, OTG |-> \h1000])
INT_Enable ==
  << BitNumbers([TMR0 |-> 0, TMR1 |-> 1, GPIO |-> 2, UART |-> 3, DMA |-> 4, MBX_IN |-> 6, HSS |-> 7,
                 SIE1 |-> 8, SIE2 |-> 9, SPI |-> 11]),
     Masks([TMR0 |-> \h1, TMR1 |-> \h2, GPIO |-> \h4, UART |-> \h8, DMA |-> \h10, MBX_IN |-> \h40,
            HSS |-> \h80, SIE1 |-> \h100, SIE2 |-> \h200, SPI |-> \h800]) >>
GIO_IntCtl ==
  << BitNumbers([IRQ0En |-> 0, IRQ0Pol |-> 1, IRQ1En |-> 2, IRQ1Pol |-> 3, SX |-> 4, SG |-> 5,
                 HX |-> 6, HG |-> 7, MD |-> 15]) @@ [Mode |-> Sized(8, 3), Bond |-> Sized(11, 2)],
     Masks([IRQ0En |-> \h1, IRQ0Pol |-> \h2, IRQ1En |-> \h4, IRQ1Pol |-> \h8, SX |-> \h10, SG |-> \h20,
            HX |-> \h40, HG |-> \h80]) >>
POWER_CTL ==
  Masks([SIE2 |-> \h4000, SIE1 |-> \h1000, OTG |-> \h800, HSS |-> \h200, SPI |-> \h100, HPI |-> \h80,
         GPIO |-> \h10, SLEEP |-> \h2, HALT |-> \h1])
USB_DIAG ==
  Masks([c2B |-> \h8000, c2A |-> \h4000, c1B |-> \h2000, c1A |-> \h1000, PULLDOWN |-> \h40,
         LS_PULLUP |-> \h20, FS_PULLUP |-> \h10, FORCE |-> \h7])
MEM_DIAG == Masks([FAST_REFRESH |-> \h8000, MEM_ARB |-> \h700, MONITOR |-> \h1])
DRAM_CTL == Masks([DIS |-> \h8, TURBO |-> \h4, PAGE_MODE |-> \h2, REFRESH |-> \h1])
XMEM_CTL ==
  Masks([XRAM_MERGE |-> \h2000, XROM_MERGE |-> \h1000, XMEM_WIDTH |-> \h800, XMEM_WAIT |-> \h700,
         XROM_WIDTH |-> \h80, XROM_WAIT |-> \h70, XRAM_WIDTH |-> \h8, XRAM_WAIT |-> \h7])
WDT == Masks([TIMEOUT |-> \h20, PERIOD |-> \h18, LOCK |-> \h4, EN |-> \h2, RST |-> \h1])
-----------------------------------------------------------------------------
\* The two serial interface engines, as hosts and as devices.
USB_CTL == Masks([A_SOF |-> \h1, SUSPEND |-> \h4, A_RES |-> \h80, HOST |-> \h200, A_SPEED |-> \h400])
USBn_CTL ==
  Masks([B_DP |-> \h8000, B_DM |-> \h4000, A_DP |-> \h2000, A_DM |-> \h1000, B_SPEED |-> \h800,
         A_SPEED |-> \h400, HOST |-> \h200, B_RES |-> \h100, A_RES |-> \h80, B_FORCE |-> \h60,
         A_FORCE |-> \h18, SUSPEND |-> \h4, B_SOF |-> \h2, A_SOF |-> \h1])
bmHOST_CTL1 ==
  Masks([A_SOF |-> \h1, B_SOF |-> \h2, SUSPEND |-> \h4, A_FORCE |-> \h8 + \h10, B_FORCE |-> \h20 + \h40,
         A_RES |-> \h80, B_RES |-> \h100, HOST |-> \h200, A_SPEED |-> \h400, B_SPEED |-> \h800,
         A_DM |-> \h1000, A_DP |-> \h2000, B_DM |-> \h4000, B_DP |-> \h8000])
bmCTRL ==
  Masks([A_SOF |-> \h1, SUSPEND |-> \h4, STANDBY |-> \h40, A_RES |-> \h80, B_RES |-> \h100, HOST |-> \h200,
         A_SPEED |-> \h400, B_SPEED |-> \h800, A_FORCE |-> \h10 + \h8])
USB_HOSTn_CTL == Masks([ARM |-> \h1, ISO |-> \h10, SYNC |-> \h20, SEQ |-> \h40, PREAMBLE |-> \h80])
HOSTn_CTL ==
  Masks([PREAMBLE |-> \h80, SEQ |-> \h40, SYNC |-> \h20, ISO |-> \h10, TIMEOUT |-> \h8, DIR |-> \h4,
         EN |-> \h2, ARM |-> \h1])
bmHOST_HCTL == Masks([ARM |-> \h1, ISO |-> \h10, SYNC |-> \h20, SEQ |-> \h40, PREAMBLE |-> \h80])
USB_HOSTn_INT_EN ==
  Masks([DONE |-> \h1, A_CHG |-> \h10, A_WAKE |-> \h40, SOF |-> \h200, ID |-> \h4000, VBUS |-> \h8000])
HOSTn_IRQ_EN ==
  Masks([VBUS |-> \h8000, ID |-> \h4000, SOF |-> \h200, B_WAKE |-> \h80, A_WAKE |-> \h40, B_CHG |-> \h20,
         A_CHG |-> \h10, DONE |-> \h1])
bmHOST_INTEN ==
  Masks([DONE |-> \h1, A_CHG |-> \h10, B_CHG |-> \h20, A_WAKE |-> \h40, B_WAKE |-> \h80, SOF |-> \h200,
         IEXP |-> \h400, ID |-> \h4000, VBUS |-> \h8000])
USB_HOSTn_STATUS ==
  Masks([DONE |-> \h1, A_SE0 |-> \h2, A_CHG |-> \h10, A_WAKE |-> \h40, SOF |-> \h200, ID |-> \h4000,
         VBUS |-> \h8000])
HOSTn_STAT ==
  Masks([VBUS |-> \h8000, ID |-> \h4000, SOF |-> \h200, B_WAKE |-> \h80, A_WAKE |-> \h40, B_CHG |-> \h20,
         A_CHG |-> \h10, B_SE0 |-> \h8, A_SE0 |-> \h4, DONE |-> \h1])
bmHOST_INT ==
  Masks([DONE |-> \h1, A_SE0 |-> \h4, B_SE0 |-> \h8, A_CHG |-> \h10, B_CHG |-> \h20, A_WAKE |-> \h40,
         B_WAKE |-> \h80, SOF |-> \h200, ID |-> \h4000, VBUS |-> \h8000])
\* How the last packet went.
DEVICE_ENDPOINTn_STAT ==
  Masks([ACK |-> \h1, ERROR |-> \h2, TIMEOUT |-> \h4, SEQ |-> \h8, SETUP |-> \h10, LENGTH |-> \h20,
         NAK |-> \h40, STALL |-> \h80, IN_EXC |-> \h100, OUT_EXC |-> \h200, UNDER |-> \h400, OVER |-> \h800])
HOST_EP_STAT ==
  Masks([STALL |-> \h80, NAK |-> \h40, OVER |-> \h20, SEQ |-> \h8, TIMEOUT |-> \h4, ERROR |-> \h2, ACK |-> \h1])
DEV_EP_STAT == Masks([OUT_EXC |-> \h200, IN_EXC |-> \h100, SETUP |-> \h10])
bmHOST_STATMASK ==
  Masks([ACK |-> \h1, ERROR |-> \h2, TIMEOUT |-> \h4, SEQ |-> \h8, SETUP |-> \h10, OVER |-> \h20,
         NAK |-> \h40, STALL |-> \h80])
bmEP_PSR ==
  Masks([ACK |-> \h1, ERROR |-> \h2, TIMEOUT |-> \h4, SEQ |-> \h8, SETUP |-> \h10, OVER |-> \h20,
         NAK |-> \h40, STALL |-> \h80, IN_EXC |-> \h100, OUT_EXC |-> \h200])
DEVICE_ENDPOINTn_CTL ==
  Masks([ARM |-> \h1, ENABLE |-> \h2, DIR |-> \h4, NAK_INT |-> \h8, ISO |-> \h10, STALL |-> \h20,
         SEQ |-> \h40, IGNORE |-> \h80])
EPn_CTL == Masks([IGNORE |-> \h80, STALL |-> \h20, NAK_INT |-> \h80])
bmEP_CTRL ==
  Masks([STICKY |-> \h80, SEQ |-> \h40, STALL |-> \h20, ISO |-> \h10, NDS_B |-> \h8, DIR |-> \h4,
         ENABLE |-> \h2, ARM |-> \h1, EP |-> \h70])
DEVICE_INT_EN ==
  Masks([EP0 |-> \h1, EP1 |-> \h2, EP2 |-> \h4, EP3 |-> \h8, EP4 |-> \h10, EP5 |-> \h20, EP6 |-> \h40,
         EP7 |-> \h80, RST |-> \h100, SOF |-> \h200, SOF_TIMEOUT |-> \h800, ID |-> \h4000, VBUS |-> \h8000])
DEVICE_INT_Flag ==
  Masks([EP0 |-> \h1, EP1 |-> \h2, EP2 |-> \h4, EP3 |-> \h8, EP4 |-> \h10, EP5 |-> \h20, EP6 |-> \h40,
         EP7 |-> \h80, RST |-> \h100, SOF |-> \h200, ID |-> \h4000, VBUS |-> \h8000])
DEVn_IRQ_EN ==
  Masks([WAKE |-> \h400, RST |-> \h100, EP7 |-> \h80, EP6 |-> \h40, EP5 |-> \h20, EP4 |-> \h10,
         EP3 |-> \h8, EP2 |-> \h4, EP1 |-> \h2, EP0 |-> \h1])
DEVn_STAT ==
  Masks([WAKE |-> \h400, RST |-> \h100, EP7 |-> \h80, EP6 |-> \h40, EP5 |-> \h20, EP4 |-> \h10,
         EP3 |-> \h8, EP2 |-> \h4, EP1 |-> \h2, EP0 |-> \h1])
bmISR ==
  Masks([EP0 |-> \h1, EP1 |-> \h2, EP2 |-> \h4, EP3 |-> \h8, EP4 |-> \h10, EP5 |-> \h20, EP6 |-> \h40,
         EP7 |-> \h80, RST |-> \h100, SOF |-> \h200, WAKE |-> \h400, USBA |-> \h1])
OTG_CTL ==
  Masks([RX_DIS |-> \h1000, CHG_PUMP |-> \h800, DISCH |-> \h400, DPLUS_PULLUP |-> \h200,
         DMINUS_PULLUP |-> \h100, DPLUS_PULLDOWN |-> \h80, DMINUS_PULLDOWN |-> \h40, DATA |-> \h4,
         ID |-> \h2, VBUS |-> \h1])
-----------------------------------------------------------------------------
\* The port to the Nios: what it is told, and which interrupts go to it.
HPI_STATUS ==
  Masks([MBX_OUT |-> \h1, RST1 |-> \h2, DONE1 |-> \h4, DONE2 |-> \h8, SIE1msg |-> \h10, SIE2msg |-> \h20,
         RESUME1 |-> \h40, RESUME2 |-> \h80, MBX_IN |-> \h100, SOF1 |-> \h400, SOF2 |-> \h1000,
         ID |-> \h4000, VBUS |-> \h8000])
HPI_STAT_PORT ==
  << Masks([VBUS |-> \h8000, ID |-> \h4000, SOF2 |-> \h1000, SOF1 |-> \h400, RST2 |-> \h200, MBX_IN |-> \h100,
            RESUME2 |-> \h80, RESUME1 |-> \h40, DONE2 |-> \h8, DONE1 |-> \h4, RST1 |-> \h2, MBX_OUT |-> \h1]),
     Masks([SOF2 |-> \h1000, SOF1 |-> \h400, RST2 |-> \h200, RST1 |-> \h2, RESUME2 |-> \h80, RESUME1 |-> \h40,
            DONE2 |-> \h8, DONE1 |-> \h4]) >>
HPI_IRQ_ROUTING ==
  << Masks([VBUS_HPI |-> \h8000, ID_HPI |-> \h4000, SOF2_CPU |-> \h1000, SOF2_HPI |-> \h2000,
            SOF1_CPU |-> \h400, SOF1_HPI |-> \h800, RST2_HPI |-> \h200, SWAP_1 |-> \h100,
            RESUME2_HPI |-> \h80, RESUME1_HPI |-> \h40, DONE2_HPI |-> \h8, DONE1_HPI |-> \h4,
            RST1_HPI |-> \h2, SWAP_0 |-> \h1]),
     Masks([SOF2_HPI |-> \h1000, SOF1_HPI |-> \h400, SOF2_CPU |-> \h2000, SOF1_CPU |-> \h800,
            RESUME2_HPI |-> \h80, RESUME1_HPI |-> \h40, DONE2_HPI |-> \h8, DONE1_HPI |-> \h4,
            RST2_HPI |-> \h200, RST1_HPI |-> \h2]) >>
HPI_PORTS == BitNumbers([DATA |-> 0, MBX |-> 1, ADDR |-> 2, STAT |-> 3])
HPI_DMACtl == BitNumbers([D0 |-> 0, D1 |-> 1, DREQ |-> 2])
-----------------------------------------------------------------------------
\* The other ports.
GPIO_CTL ==
  Masks([WP |-> \h8000, SAS |-> \h800, MODE |-> \h700, HSS |-> \h80, HSS_XD |-> \h40, SPI |-> \h20,
         SPI_XD |-> \h10, IRQ1_POL |-> \h8, IRQ1 |-> \h4, IRQ0_POL |-> \h2, IRQ0 |-> \h1])
EPP_CTL == \* the pins have other names in each of the two modes
  << Masks([MODE |-> \h8000, SELECT |-> \h4000, nFAULT |-> \h2000, pERROR |-> \h1000, P5 |-> \h20,
            P4 |-> \h10, P3 |-> \h8, P2 |-> \h4, P1 |-> \h2, P0 |-> \h1]),
     Masks([P5 |-> \h20, P4 |-> \h10, P3 |-> \h8, P2 |-> \h4, P1 |-> \h2, P0 |-> \h1]) >>
IDE_CTL == Masks([DIR |-> \h8, IRQ |-> \h4, DONE |-> \h2, EN |-> \h1])
MDMA_CTL == Masks([DIR |-> \h8, IRQ |-> \h4, DONE |-> \h2, EN |-> \h1])
IDE_MODE == Masks([MODE |-> \h7])
MDMA_MODE == Masks([PROTOCOL |-> \h8, MODE |-> \h7])
HSS_CTL ==
  Masks([Enable |-> \h8000, RTSpolarity |-> \h4000, CTSpolarity |-> \h2000, XOFFstate |-> \h1000,
         XOFFenab |-> \h800, CTSenab |-> \h400, RxIntr |-> \h200, DoneIntr |-> \h100, TBkDone |-> \h80,
         RBkDone |-> \h40, OneStop |-> \h20, TxRdy |-> \h10, PacketMode |-> \h8, RxErr |-> \h4,
         RxPktRdy |-> \h2, RxRdy |-> \h1])
HSS_Ctl_ ==
  << BitNumbers([PacketMode |-> 3, OneStop |-> 5, RBkDone |-> 6, TBkDone |-> 7, DoneIntr |-> 8,
                 RxIntr |-> 9, CTSenab |-> 10, XOFFenab |-> 11, XOFFstate |-> 12, CTSpolarity |-> 13,
                 RTSpolarity |-> 14, Enable |-> 15, RxRdy |-> 0, RxPktRdy |-> 1, RxErr |-> 2, TxRdy |-> 4]),
     Masks([PacketMode |-> \h8, OneStop |-> \h20, RBkDone |-> \h40, TBkDone |-> \h80, DoneIntr |-> \h100,
            RxIntr |-> \h200, CTSenab |-> \h400, XOFFenab |-> \h800, XOFFstate |-> \h1000,
            CTSpolarity |-> \h2000, RTSpolarity |-> \h4000, Enable |-> \h8000, RxRdy |-> \h1,
            RxPktRdy |-> \h2, RxErr |-> \h4, TxRdy |-> \h10]) >>
SPI_CFG ==
  Masks([c3WIRE |-> \h8000, CPHA |-> \h400, CPOL |-> \h2000, Sel |-> \h1E00, MstrActive |-> \h80,
         MstrNotSlv |-> \h40, SSEn |-> \h20, SSDly |-> \h1F])
SPI_Cfg_ ==
  << BitNumbers([c3WIRE |-> 15, CPHA |-> 14, CPOL |-> 13, RedLine |-> 8, MstrActive |-> 7, MstrNotSlv |-> 6,
                 SSEn |-> 5]) @@ [Sel |-> Sized(9, 4), SSDly |-> Sized(0, 5)],
     Masks([c3WIRE |-> \h8000, CPHA |-> \h4000, CPOL |-> \h2000, RedLine |-> \h100, MstrActive |-> \h80,
            MstrNotSlv |-> \h40, SSEn |-> \h20]) >>
SPI_CTL ==
  Masks([SCKStrobe |-> \h8000, FIFOInit |-> \h4000, ByteMode |-> \h2000, FullDuplex |-> \h1000,
         SSManVal |-> \h800, DoRead |-> \h400, TxRdy |-> \h200, RxDatRdy |-> \h100, TxEmpty |-> \h80,
         RxFull |-> \h20, TxBitLen |-> \h31, RxBitLen |-> \h7])
SPI_Ctl_ ==
  << BitNumbers([SCKStrobe |-> 15, FIFOInit |-> 14, ByteMode |-> 13, FullDuplex |-> 12, SSManVal |-> 11,
                 DoRead |-> 10, TxRdy |-> 9, RxDatRdy |-> 8, TxEmpty |-> 7, RxFull |-> 6])
       @@ [TxBitLen |-> Sized(3, 3), RxBitLen |-> Sized(0, 3)],
     Masks([SCKStrobe |-> \h8000, FIFOInit |-> \h4000, ByteMode |-> \h2000, FullDuplex |-> \h1000,
            SSManVal |-> \h800, DoRead |-> \h400, TxRdy |-> \h200, RxDatRdy |-> \h100, TxEmpty |-> \h80,
            RxFull |-> \h40]) >>
SPI_IRQ ==
  << Masks([Rx |-> \h4, Tx |-> \h2, XfrBk |-> \h1]),
     Masks([FIFOErr |-> \h100, Rx |-> \h4, Tx |-> \h2, XfrBk |-> \h1]), Masks([Tx |-> \h2, XfrBk |-> \h1]) >>
SPI_Int ==
  << BitNumbers([XfrBk |-> 0, Tx |-> 1, Rx |-> 2, FIFOErr |-> 7]), Masks([Rx |-> \h4, Tx |-> \h2, XfrBk |-> \h1]),
     Masks([FIFOErr |-> \h80, Rx |-> \h4, Tx |-> \h2, XfrBk |-> \h1]), Masks([Tx |-> \h2, XfrBk |-> \h1]) >>
SPI_CRC_CTL ==
  Masks([Mode |-> \hC000, Active |-> \h2000, Clear |-> \h1000, RxNotTx |-> \h800, OR |-> \h400, NAND |-> \h200])
SPI_CRCCtl ==
  << BitNumbers([Active |-> 13, Clear |-> 12, RxNotTx |-> 11, OR |-> 10, NAND |-> 9])
       @@ [Mode |-> Sized(14, 2)],
     Masks([Active |-> \h2000, Clear |-> \h1000, RxNotTx |-> \h800, OR |-> \h400, NAND |-> \h200]) >>
UART_CTL == Masks([SCALE |-> \h10, BAUD |-> \hE, EN |-> \h1])
UART_STAT == << Masks([RX_FULL |-> \h2]), Masks([RX_FULL |-> \h2, TX_EMPTY |-> \h1]) >>
PWM_CTL ==
  Masks([EN |-> \h8000, PRESCALE |-> \hE00, MODE |-> \h100, POL3 |-> \h80, POL2 |-> \h40, POL1 |-> \h20,
         POL0 |-> \h10, EN3 |-> \h8, EN2 |-> \h4, EN1 |-> \h2, EN0 |-> \h1])
-----------------------------------------------------------------------------
\* Registers that hold numbers, by header: with its mask, or its position and size.
USB_HOSTn_NUMBERS ==
  [HOST_CNT |-> Masks([CNT |-> \h3FF]), HOST_PID |-> Masks([EP |-> \hF, PID |-> \hF0]),
   HOST_RESULT |-> Masks([RESULT |-> \hFFFF]), HOST_DEV |-> Masks([ADDR |-> \h7F]),
   SOF_CNT |-> Masks([CNT |-> \h3FFF]), SOF_CTR |-> Masks([CTR |-> \h3FFF]), HOST_FRAME |-> Masks([NUM |-> \h7FF])]
HOSTn_NUMBERS ==
  [HOST_CNT |-> Masks([PORT |-> \h4000, CNT |-> \h3FF]), HOST_PID |-> Masks([PID |-> \hF0, EP |-> \hF]),
   HOST_RESULT |-> Masks([RESULT |-> \hFF]), HOST_DEV |-> Masks([ADDR |-> \h7F]),
   SOF_CNT |-> Masks([CNT |-> \h3FFF]), SOF_CTR |-> Masks([CTR |-> \h3FFF]), HOST_FRAME |-> Masks([NUM |-> \h7FF])]
bmHOST_PORT_SEL == [HOST_CNT |-> Masks([PORT |-> \h4000])]
bmPSPD ==
  [SOF_CNT |-> Masks([LOW_A |-> \h4000, LOW_B |-> \h8000]), HOST_CNT |-> Masks([PORT |-> \h4000])]
DEVICE_NUMBERS ==
  [DEV_FRAME |-> Masks([NUM |-> \h7FF, TIMEOUTS |-> \h7000, SOF |-> \h8000]), SOF_CNT |-> Masks([CNT |-> \h3FFF])]
DEVn_NUMBERS == [DEV_FRAME |-> Masks([NUM |-> \h7FF])]
HPI_NUMBERS == [MAILBOX |-> Masks([DATA |-> \hFFFF])]
HPI_RGN_NUMBERS == [MAILBOX |-> [DATA |-> Sized(0, 16)]]
HSS_NUMBERS ==
  [HSS_BAUD |-> Masks([RATE |-> \h1FFF]), HSS_GAP |-> Masks([GAP |-> \hFF]), HSS_DATA |-> Masks([DATA |-> \hFF]),
   HSS_RX |-> Masks([LEN |-> \h3FF]), HSS_TX |-> Masks([LEN |-> \h3FF])]
HSS_RGN_NUMBERS ==
  [HSS_BAUD |-> [RATE |-> Sized(0, 13)], HSS_GAP |-> [GAP |-> Sized(0, 16)], HSS_DATA |-> [DATA |-> Sized(0, 8)],
   HSS_RX |-> [LEN |-> Sized(0, 10)], HSS_TX |-> [LEN |-> Sized(0, 10)]]
SPI_NUMBERS ==
  [SPI_DATA |-> Masks([DATA |-> \hFF]), SPI_TX |-> Masks([LEN |-> \h7FF]), SPI_RX |-> Masks([LEN |-> \h7FF])]
SPI_RGN_NUMBERS ==
  [SPI_DATA |-> [DATA |-> Sized(0, 8)], SPI_TX |-> [LEN |-> Sized(0, 16)], SPI_RX |-> [LEN |-> Sized(0, 16)]]
Numbers ==
  LET tables == << USB_HOSTn_NUMBERS, HOSTn_NUMBERS, bmHOST_PORT_SEL, bmPSPD, DEVICE_NUMBERS, DEVn_NUMBERS,
                   HPI_NUMBERS, HPI_RGN_NUMBERS, HSS_NUMBERS, HSS_RGN_NUMBERS, SPI_NUMBERS, SPI_RGN_NUMBERS >>
      With(r) == SelectSeq(tables, LAMBDA t : r \in DOMAIN t)
  IN  [r \in UNION {DOMAIN tables[i] : i \in DOMAIN tables} |->
         [i \in DOMAIN With(r) |-> With(r)[i][r]]]
-----------------------------------------------------------------------------
\* Where the registers are.
CPU_ADDRESSES ==
  AsWords([FLAGS |-> \hC000, BANK |-> \hC002, HW_REV |-> \hC004, SPEED |-> \hC008, POWER_CTL |-> \hC00A,
         IRQ_EN |-> \hC00E, BKPT |-> \hC014, USB_DIAG |-> \hC03C, MEM_DIAG |-> \hC03E])
MEMORY_ADDRESSES ==
  AsWords([PG1 |-> \hC018, PG2 |-> \hC01A, DRAM_CTL |-> \hC038, XMEM_CTL |-> \hC03A, WDT |-> \hC00C,
         TMR0 |-> \hC010, TMR1 |-> \hC012])
DEVICE_ADDRESSES == \* a device has its frame number where a host has a count
  AsWords([IRQ_EN1 |-> \hC08C, DEV_ADDR1 |-> \hC08E, STAT1 |-> \hC090, SOF_CNT1 |-> \hC092])
USB_HOSTn_ADDRESSES ==
  AsWords([CTL2 |-> \hC0A0, ADDR2 |-> \hC0A2, CNT2 |-> \hC0A4, PID2 |-> \hC0A6, USB_DEV2 |-> \hC0A8,
         IRQ_EN2 |-> \hC0AC, STAT2 |-> \hC0B0, SOF_CNT2 |-> \hC0B2, SOF_CTR2 |-> \hC0B4, FRAME2 |-> \hC0B6])
SIE_ADDRESSES ==
  AsWords([USB_CTL1 |-> \hC08A, USB_CTL2 |-> \hC0AA, IRQ_EN1 |-> \hC08C, IRQ_EN2 |-> \hC0AC, STAT1 |-> \hC090,
         STAT2 |-> \hC0B0])
SIE_HOST_ADDRESSES ==
  AsWords([CTL1 |-> \hC080, CTL2 |-> \hC0A0, ADDR1 |-> \hC082, ADDR2 |-> \hC0A2, CNT1 |-> \hC084,
         CNT2 |-> \hC0A4, PID1 |-> \hC086, PID2 |-> \hC0A6])
SIE_COUNTER_ADDRESSES ==
  AsWords([PID1 |-> \hC086, PID2 |-> \hC0A6, USB_DEV1 |-> \hC088, USB_DEV2 |-> \hC0A8, SOF_CNT1 |-> \hC092,
         SOF_CNT2 |-> \hC0B2, SOF_CTR1 |-> \hC094, SOF_CTR2 |-> \hC0B4, FRAME1 |-> \hC096, FRAME2 |-> \hC0B6])
DEVn_ADDRESSES ==
  AsWords([CNT1 |-> \hC084, CNT2 |-> \hC0A4, IRQ_EN1 |-> \hC08C, IRQ_EN2 |-> \hC0AC, STAT1 |-> \hC090,
         STAT2 |-> \hC0B0, DEV_ADDR1 |-> \hC08E, DEV_ADDR2 |-> \hC0AE, SOF_CNT1 |-> \hC092, SOF_CNT2 |-> \hC0B2])
O_SIE ==
  << AsWords([CTL1 |-> \hC080, ADDR1 |-> \hC080 + \h2, CNT1 |-> \hC080 + \h4, PID1 |-> \hC080 + \h6,
            USB_CTL1 |-> \hC080 + \hA, IRQ_EN1 |-> \hC080 + \hC, DEV_ADDR1 |-> \hC080 + \hE,
            STAT1 |-> \hC080 + \h10, SOF_LO1 |-> \hC080 + \h12, SOF_HI1 |-> \hC080 + \h14]),
     AsWords([CTL2 |-> \hC0A0, ADDR2 |-> \hC0A0 + \h2, CNT2 |-> \hC0A0 + \h4, PID2 |-> \hC0A0 + \h6,
            USB_CTL2 |-> \hC0A0 + \hA, IRQ_EN2 |-> \hC0A0 + \hC, DEV_ADDR2 |-> \hC0A0 + \hE,
            STAT2 |-> \hC0A0 + \h10, SOF_LO2 |-> \hC0A0 + \h12, SOF_HI2 |-> \hC0A0 + \h14]) >>
PORT_ADDRESSES ==
  AsWords([OTG_CTL |-> \hC098, GPIO_CTL |-> \hC006, GPIO_CNTRL |-> \hC01C, OUT0 |-> \hC01E, OUT1 |-> \hC024, IN0 |-> \hC020,
         IN1 |-> \hC026, DIR0 |-> \hC022, DIR1 |-> \hC028])
EPP_ADDRESSES == AsWords([EPP_CTL |-> \hC046, EPP_DATA |-> \hC040, EPP_BFR |-> \hC042, EPP_ADDR |-> \hC044])
IDE_ADDRESSES ==
  AsWords([MODE |-> \hC048, START |-> \hC04A, STOP |-> \hC04C, IDE_CTL |-> \hC04E, DATA |-> \hC050,
         ERR |-> \hC052, SECTORS |-> \hC054, SECTOR |-> \hC056, CYL_LO |-> \hC058, CYL_HI |-> \hC05A,
         HEAD |-> \hC05C, CMD |-> \hC05E, DEV_CTL |-> \hC06C])
MDMA_ADDRESSES == AsWords([MODE |-> \hC048, START |-> \hC04A, STOP |-> \hC04C, IDE_CTL |-> \hC04E])
IDE_RGN ==
  AsWords([DATA |-> \hC050, ERR |-> \hC052, SECTORS |-> \hC054, SECTOR |-> \hC056, CYL_LO |-> \hC058,
         CYL_HI |-> \hC05A, HEAD |-> \hC05C, CMD |-> \hC05E, DEV_CTL |-> \hC06C])
HSS_ADDRESSES ==
  AsWords([HSS_CTL |-> \hC070, BAUD |-> \hC072, GAP |-> \hC074, HSS_DATA |-> \hC076, RX_ADDR |-> \hC078,
         RX_LEN |-> \hC07A, TX_ADDR |-> \hC07C, TX_LEN |-> \hC07E])
HSS_RGN ==
  AsWords([HSS_CTL |-> \hC070, BAUD |-> \hC072, GAP |-> \hC074, HSS_DATA |-> \hC076, RX_ADDR |-> \hC078,
         RX_LEN |-> \hC07A, TX_ADDR |-> \hC07C, TX_LEN |-> \hC07E])
SPI_ADDRESSES ==
  AsWords([Cfg |-> \hC0C8, Ctl |-> \hC0CA, IntEnab |-> \hC0CC, IntVal |-> \hC0CE, IntClr |-> \hC0D0,
         CRCCtl |-> \hC0D2, CRCVal |-> \hC0D4, TxRxData |-> \hC0D6, TxBlk |-> \hC0D8, TxLen |-> \hC0DA,
         RxBlk |-> \hC0DC, RxLen |-> \hC0DE])
SPI_RGN == \* the first from the comment's table and SPI_..._ADR, the second from SPI_..._AFE
  << AsWords([Cfg |-> \hC0C8, Ctl |-> \hC0CA, IntEnab |-> \hC0CC, IntVal |-> \hC0CE, IntClr |-> \hC0D0,
            CRCCtl |-> \hC0D2, CRCVal |-> \hC0D4, TxRxData |-> \hC0D6, TxBlk |-> \hC0D8, TxLen |-> \hC0DA,
            RxBlk |-> \hC0DC, RxLen |-> \hC0DE]),
     AsWords([Cfg |-> \hC0C0 + \h8, Ctl |-> \hC0C0 + \hA, IntEnab |-> \hC0C0 + \hC, IntVal |-> \hC0C0 + \hE,
            IntClr |-> \hC0C0 + \h10, CRCCtl |-> \hC0C0 + \h12, CRCVal |-> \hC0C0 + \h14,
            TxRxData |-> \hC0C0 + \h16, TxBlk |-> \hC0C0 + \h18, TxLen |-> \hC0C0 + \h1A,
            RxBlk |-> \hC0C0 + \h1C, RxLen |-> \hC0C0 + \h1E]) >>
UART_PWM_ADDRESSES ==
  AsWords([UART_CTL |-> \hC0E0, UART_STAT |-> \hC0E2, UART_DATA |-> \hC0E4, PWM_CTL |-> \hC0E6,
         PWM_MAX |-> \hC0E8, START0 |-> \hC0EA, STOP0 |-> \hC0EC, START1 |-> \hC0EE, STOP1 |-> \hC0F0,
         START2 |-> \hC0F2, STOP2 |-> \hC0F4, START3 |-> \hC0F6, STOP3 |-> \hC0F8, CYCLES |-> \hC0FA])
HPI_ADDRESSES ==
  AsWords([HPI_BKPT |-> \h140, ROUTING |-> \h142, SIE1msg |-> \h144, HPI_RESERVED |-> \h146, SIE2msg |-> \h148,
         DMACtl |-> \hC0C0, HPI_MBX |-> \hC0C4, MAILBOX |-> \hC0C6])
HPI_HOST_ADDRESSES ==
  AsWords([HPI_BKPT |-> \h140, ROUTING |-> \h142, SIE1msg |-> \h144, SIE2msg |-> \h148, MAILBOX |-> \hC0C6])
\* Eight endpoints for each engine, five registers for each endpoint: in full,
\* and as base, bank and offset.
EPn_ADDRESSES ==
  LET Row(r, a) == [k \in {<<r, sie, n>> : sie \in 1..2, n \in 0..7} |->
                      {a[8 * (k[2] - 1) + k[3] + 1], a[8 * (k[2] - 1) + k[3] + 1] + 1}]
  IN  Row("CTL", <<\h200, \h210, \h220, \h230, \h240, \h250, \h260, \h270,
                   \h280, \h290, \h2A0, \h2B0, \h2C0, \h2D0, \h2E0, \h2F0>>)
      @@ Row("ADDR", <<\h202, \h212, \h222, \h232, \h242, \h252, \h262, \h272,
                       \h282, \h292, \h2A2, \h2B2, \h2C2, \h2D2, \h2E2, \h2F2>>)
      @@ Row("CNT", <<\h204, \h214, \h224, \h234, \h244, \h254, \h264, \h274,
                      \h284, \h294, \h2A4, \h2B4, \h2C4, \h2D4, \h2E4, \h2F4>>)
      @@ Row("STAT", <<\h206, \h216, \h226, \h236, \h246, \h256, \h266, \h276,
                       \h286, \h296, \h2A6, \h2B6, \h2C6, \h2D6, \h2E6, \h2F6>>)
      @@ Row("CTR", <<\h208, \h218, \h228, \h238, \h248, \h258, \h268, \h278,
                      \h288, \h298, \h2A8, \h2B8, \h2C8, \h2D8, \h2E8, \h2F8>>)
      @@ [k \in {<<"REQ", sie, 0>> : sie \in 1..2} |-> {<<\h300, \h308>>[k[2]]}]
O_EP ==
  LET bank == <<\h0, \h10, \h20, \h30, \h40, \h50, \h60, \h70>>
      half == <<\h0, \h80>>
      EP_BASE == << <<\h200, \h210, \h220, \h230, \h240, \h250, \h260, \h270>>,
                    <<\h280, \h290, \h2A0, \h2B0, \h2C0, \h2D0, \h2E0, \h2F0>> >>
      offset == [CTL |-> 0, ADDR |-> 2, CNT |-> 4, STAT |-> 6, CTR |-> 8, MAX |-> \hA, LEFT |-> \hC, P_GF |-> \hE]
      From(base) == [k \in {<<r, sie, n>> : r \in DOMAIN offset, sie \in 1..2, n \in 0..7} |->
                       LET a == base[k[2]][k[3] + 1] + offset[k[1]] IN {a, a + 1}]
  IN  << From([sie \in 1..2 |-> [n \in 1..8 |-> \h200 + half[sie] + bank[n]]]),
         From([sie \in 1..2 |-> [n \in 1..8 |-> <<\h200, \h280>>[sie] + bank[n]]]), From(EP_BASE) >>
-----------------------------------------------------------------------------
\* What the chip and its host tell each other: messages of an engine that is
\* a device or a host, and the area of the commands, whose first words are
\* the arguments of the simple ones.
SUSB_MSG ==
  Masks([EP0 |-> \h1, EP1 |-> \h2, EP2 |-> \h4, EP3 |-> \h8, EP4 |-> \h10, EP5 |-> \h20, EP6 |-> \h40,
         EP7 |-> \h80, RST |-> \h100, SOF |-> \h200, CFG |-> \h400, SUS |-> \h800, VBUS |-> \h8000,
         ID |-> \h4000])
HUSB_MSG ==
  Masks([TDListDone |-> \h1000, SOF |-> \h2000, ARMV |-> \h1, AINS_FS |-> \h2, AINS_LS |-> \h4,
         AWakeUp |-> \h8, BRMV |-> \h10, BINS_FS |-> \h20, BINS_LS |-> \h40, BWakeUp |-> \h80])
COMM_AREA ==
  AsWords([lcp_table |-> \h19A, snd_msg |-> \h19C, lcp_sema |-> \h19E, lcp_chain |-> \h1A0, lcp_rsp |-> \h1A2,
         TDPtr1 |-> \h1B0, TDPtr2 |-> \h1B2, pEOT |-> \h1B4, Done1 |-> \h1B6, Done2 |-> \h1B8])
COMM_DATA ==
  << AsWords([cmd |-> \h1BA, data |-> \h1BC]), AsWords([data |-> \h1BC, len |-> \h1BE, last |-> \h1C0]),
     AsWords([data |-> \h1BC, len |-> \h1BE, last |-> \h1C0]), AsWords([data |-> \h1BC, len |-> \h1BE]),
     AsWords([INT_NUM |-> \h1C2, R0 |-> \h1C4, R1 |-> \h1C6, R2 |-> \h1C8, R3 |-> \h1CA, R4 |-> \h1CC,
            R5 |-> \h1CE, R6 |-> \h1D0, R7 |-> \h1D2, R8 |-> \h1D4, R9 |-> \h1D6, R10 |-> \h1D8,
            R11 |-> \h1DA, R12 |-> \h1DC, R13 |-> \h1DE]) >>
\* The descriptors of USB: where each byte and each word of them is.
O_DD ==
  BitNumbers([LENGTH |-> 0, TYPE |-> 1, CLASS |-> 4, SUBCLASS |-> 5, PROTOCOL |-> 6, EP0_MAX |-> 7,
              MFR |-> \hE, PRODUCT |-> \hF, SN |-> \h10, CONFIGS |-> \h11])
    @@ AsWords([USB |-> 2, VID |-> 8, PID |-> \hA, VERSION |-> \hC])
O_CD ==
  BitNumbers([LENGTH |-> 0, TYPE |-> 1, IFS |-> 4, CONFIG |-> 5, STRING |-> 6, ATTRIBUTES |-> 7, POWER |-> 8])
    @@ AsWords([TOTAL |-> 2])
O_ID ==
  BitNumbers([LENGTH |-> 0, TYPE |-> 1, NUM |-> 2, ALT |-> 3, EPS |-> 4, CLASS |-> 5, SUBCLASS |-> 6,
              PROTO |-> 7, STRING |-> 8])
O_ED ==
  BitNumbers([LENGTH |-> 0, TYPE |-> 1, ADDRESS |-> 2, ATTRIBUTES |-> 3, ITERVAL |-> 6]) @@ AsWords([MAX |-> 4])
O_SD == BitNumbers([LENGTH |-> 0, TYPE |-> 1])
O_DR ==
  << BitNumbers([TYPE |-> 0, REQ |-> 1]) @@ AsWords([VALUE |-> 2, INDEX |-> 4, LEN |-> 6]),
     [VALUE |-> {2} \union {3}] >>
bmGS == Masks([REMOTE_WAKEUP |-> \h2, SELF_POWERED |-> \h1])
bmCDATTR == Masks([RSVD |-> \h1F, RWAKEUP |-> \h20, SELF_PWR |-> \h40, BUS_PWR |-> \h80])
bmEDADDR == Masks([EP_NUM |-> \h7, UNUSED |-> \h70, DIR_IN |-> \h80])
bmRT == Masks([DIR |-> \h80, VENDOR |-> \h40, CLASS |-> \h20, RECIPIENT |-> \hF])
EP_TYPE == Masks([TYPE |-> \h1 + \h2])
bmEDATTR == Masks([TYPE |-> \h1 + \h10, UNUSED |-> \hFC])
-----------------------------------------------------------------------------
\* The vectors of the chip's interrupts: as numbers, as addresses and, for
\* those of its device role, as offsets from two bases.
HW_INT ==
  Of(0, Ints([TIMER0 |-> 0, TIMER1 |-> 1, GP_IRQ0 |-> 2, GP_IRQ1 |-> 3, UART_TX |-> 4, UART_RX |-> 5,
              HSS_DONE |-> 6, HSS_RX |-> 7, IDE |-> 8, HPI_RX |-> \hA, HPI_TX |-> \hB, SPI_TX |-> \hC,
              SPI_RX |-> \hD, SPI_DMA |-> \hE, OTG |-> \hF, Reserved9 |-> \h9, Reserved19 |-> \h13,
              Reserved22 |-> \h16, Reserved23 |-> \h17, Reserved27 |-> \h1B, Reserved30 |-> \h1E, Reserved31 |-> \h1F]))
    @@ Of(1, Ints([DONE |-> \h10, SOF |-> \h11, INS_REM |-> \h12, RESET |-> \h14, DEV_SOF |-> \h15,
                   EP0 |-> \h20, EP1 |-> \h21, EP2 |-> \h22, EP3 |-> \h23, EP4 |-> \h24, EP5 |-> \h25,
                   EP6 |-> \h26, EP7 |-> \h27]))
    @@ Of(2, Ints([DONE |-> \h18, SOF |-> \h19, INS_REM |-> \h1A, RESET |-> \h1C, DEV_SOF |-> \h1D,
                   EP0 |-> \h28, EP1 |-> \h29, EP2 |-> \h2A, EP3 |-> \h2B, EP4 |-> \h2C, EP5 |-> \h2D,
                   EP6 |-> \h2E, EP7 |-> \h2F]))
HW_VEC ==
  Of(0, AsWords([TIMER0 |-> 0, TIMER1 |-> 2, GP_IRQ0 |-> 4, GP_IRQ1 |-> 6, UART_TX |-> 8, UART_RX |-> \hA,
               HSS_DONE |-> \hC, HSS_RX |-> \hE, IDE |-> \h10, HPI_RX |-> \h14, HPI_TX |-> \h16,
               SPI_TX |-> \h18, SPI_RX |-> \h1A, SPI_DMA |-> \h1C, OTG |-> \h1E]))
    @@ Of(1, AsWords([DONE |-> \h20, SOF |-> \h22, INS_REM |-> \h24, RESET |-> \h28, DEV_SOF |-> \h2A,
                    EP0 |-> \h40, EP1 |-> \h42, EP2 |-> \h44, EP3 |-> \h46, EP4 |-> \h48, EP5 |-> \h4A,
                    EP6 |-> \h4C, EP7 |-> \h4E]))
    @@ Of(2, AsWords([DONE |-> \h30, SOF |-> \h32, INS_REM |-> \h34, RESET |-> \h38, DEV_SOF |-> \h3A,
                    EP0 |-> \h50, EP1 |-> \h52, EP2 |-> \h54, EP3 |-> \h56, EP4 |-> \h58, EP5 |-> \h5A,
                    EP6 |-> \h5C, EP7 |-> \h5E]))
SW_INT ==
  Of(0, Ints([I2C |-> \h40, LI2C |-> \h41, UART |-> \h42, SCAN |-> \h43, ALLOC |-> \h44, IDLE |-> \h46,
              IDLER |-> \h47, INSERT_IDLE |-> \h48, PUSHALL |-> \h49, POPALL |-> \h4A, FREE |-> \h4B,
              REDO |-> \h4C, SWAP |-> \h4D, REST |-> \h4E, DECODE |-> \h4F, USB_INIT |-> \h70,
              SUSB_INIT |-> \h71, SEND_CMD |-> \h79, PORT_CMD |-> \h7A, CRB |-> \h7B]))
SUSB_INT ==
  << Of(3, Ints([SEND |-> \h50, RECEIVE |-> \h51, STALL |-> \h52, STANDARD |-> \h53, VENDOR |-> \h55,
                 CLASS |-> \h57, FINISH |-> \h59, PARSE |-> \h5D, LDR |-> \h5E, DELTA |-> \h5F])
             @@ AsWords([STD_LDR |-> \hA8, VENDOR_LDR |-> \hAC, CLASS_LDR |-> \hB0, DEV |-> \hB4,
                       CONFIG |-> \hB6, STRING |-> \hB8])),
     Of(4, Ints([SEND |-> \h60, RECEIVE |-> \h61, STALL |-> \h62, STANDARD |-> \h63, VENDOR |-> \h65,
                 CLASS |-> \h67, FINISH |-> \h69, PARSE |-> \h6D, LDR |-> \h6E, DELTA |-> \h6F])
             @@ AsWords([STD_LDR |-> \hC8, VENDOR_LDR |-> \hCC, CLASS_LDR |-> \hD0, DEV |-> \hD4,
                       CONFIG |-> \hD6, STRING |-> \hD8])) >>
O_SWINT ==
  LET offset == [SEND |-> 0, RECEIVE |-> 2, STALL |-> 4, STANDARD |-> 6, STD_LDR |-> 8, VENDOR |-> \hA,
                 VENDOR_LDR |-> \hC, CLASS |-> \hE, CLASS_LDR |-> \h10, FINISH |-> \h12, DEV |-> \h14,
                 CONFIG |-> \h16, STRING |-> \h18, PARSE |-> \h1A, LDR |-> \h1C, DELTA |-> \h1E]
      From(base) == AsWords([f \in DOMAIN offset |-> base + offset[f]])
  IN  <<Of(3, From(\hA0)), Of(4, From(\hC0)), Of(3, From(\hA0 + 0)), Of(4, From(\hA0 + \h20))>>
SUSB_LATE == Of(0, Ints([REMOTE_WAKEUP |-> \h77, START_SRP |-> \h78]))
HOST_INT ==
  Of(0, Ints([INIT1 |-> \h72, INIT2 |-> \h73, RESET |-> \h74, PWR_DOWN |-> \h78]) @@ AsWords([OTG_DESC |-> \hEE]))
-----------------------------------------------------------------------------
\* Each register with its vocabularies; the chip is one with its addresses.
Registers ==
  [CPU_FLAGS |-> <<CPU_FLAGS>>, IRQ_EN |-> <<IRQ_EN, bmINT_EN>> \o INT_Enable, GIO_IntCtl |-> GIO_IntCtl,
   POWER_CTL |-> <<POWER_CTL>>, USB_DIAG |-> <<USB_DIAG>>, MEM_DIAG |-> <<MEM_DIAG>>,
   DRAM_CTL |-> <<DRAM_CTL>>, XMEM_CTL |-> <<XMEM_CTL>>, WDT |-> <<WDT>>,
   USB_CTL |-> <<USB_CTL, USBn_CTL, bmHOST_CTL1, bmCTRL>>, HOST_CTL |-> <<USB_HOSTn_CTL, HOSTn_CTL, bmHOST_HCTL>>,
   HOST_IRQ_EN |-> <<USB_HOSTn_INT_EN, HOSTn_IRQ_EN, bmHOST_INTEN>>,
   HOST_STAT |-> <<USB_HOSTn_STATUS, HOSTn_STAT, bmHOST_INT>>,
   EP_STAT |-> <<DEVICE_ENDPOINTn_STAT, HOST_EP_STAT, DEV_EP_STAT, bmHOST_STATMASK, bmEP_PSR>>,
   EP_CTL |-> <<DEVICE_ENDPOINTn_CTL, EPn_CTL, bmEP_CTRL>>, DEV_IRQ_EN |-> <<DEVICE_INT_EN, DEVn_IRQ_EN>>,
   DEV_STAT |-> <<DEVICE_INT_Flag, DEVn_STAT, bmISR>>, OTG_CTL |-> <<OTG_CTL>>,
   HPI_STATUS |-> <<HPI_STATUS>> \o HPI_STAT_PORT, HPI_IRQ_ROUTING |-> HPI_IRQ_ROUTING,
   HPI_PORTS |-> <<HPI_PORTS>>, HPI_DMACtl |-> <<HPI_DMACtl>>,
   GPIO_CTL |-> <<GPIO_CTL>>, EPP_CTL |-> EPP_CTL, IDE_CTL |-> <<IDE_CTL, MDMA_CTL>>,
   MDMA_MODE |-> <<IDE_MODE, MDMA_MODE>>, HSS_CTL |-> <<HSS_CTL>> \o HSS_Ctl_, SPI_CFG |-> <<SPI_CFG>> \o SPI_Cfg_,
   SPI_CTL |-> <<SPI_CTL>> \o SPI_Ctl_, SPI_IRQ |-> SPI_IRQ \o SPI_Int,
   SPI_CRC_CTL |-> <<SPI_CRC_CTL>> \o SPI_CRCCtl, UART_CTL |-> <<UART_CTL>>, UART_STAT |-> UART_STAT, PWM_CTL |-> <<PWM_CTL>>,
   SUSB_MSG |-> <<SUSB_MSG>>, HUSB_MSG |-> <<HUSB_MSG>>, DEVICE |-> <<O_DD>>, CONFIGURATION |-> <<O_CD>>,
   INTERFACE |-> <<O_ID>>, ENDPOINT |-> <<O_ED>>, STRING |-> <<O_SD>>, REQUEST |-> O_DR, CD_ATTR |-> <<bmCDATTR>>, STATUS |-> <<bmGS>>,
   ED_ADDR |-> <<bmEDADDR>>, RT |-> <<bmRT>>, ED_ATTR |-> <<EP_TYPE, bmEDATTR>>,
   VECTORS |-> <<HW_INT, HW_VEC, SW_INT, SUSB_LATE, HOST_INT>> \o SUSB_INT \o O_SWINT,
   ENDPOINTS |-> <<EPn_ADDRESSES>> \o O_EP,
   CHIP |-> <<CPU_ADDRESSES, MEMORY_ADDRESSES, DEVICE_ADDRESSES, USB_HOSTn_ADDRESSES, SIE_ADDRESSES,
              SIE_HOST_ADDRESSES, SIE_COUNTER_ADDRESSES, DEVn_ADDRESSES, PORT_ADDRESSES, EPP_ADDRESSES, IDE_ADDRESSES,
              MDMA_ADDRESSES, IDE_RGN, HSS_ADDRESSES, HSS_RGN, SPI_ADDRESSES, UART_PWM_ADDRESSES,
              HPI_ADDRESSES, HPI_HOST_ADDRESSES, COMM_AREA>> \o COMM_DATA \o O_SIE \o SPI_RGN]
  @@ Numbers

(***************************************************************************)
(* What the header disagrees with itself about: fields that two of its     *)
(* vocabularies put in different cells, or that have a cell in common.     *)
(***************************************************************************)
Disputes ==
  [USB_CTL         |-> {"B_FORCE", "STANDBY"},                           \* 950, 2923
   HOST_STAT       |-> {"A_SE0"},                                        \* 275, 1074
   HOST_RESULT     |-> {"RESULT"},                                       \* 242, 1255
   EP_STAT         |-> {"LENGTH", "OVER"},                               \* 80, 96, 1222
   EP_CTL          |-> {"NAK_INT", "IGNORE", "NDS_B", "STICKY",          \* 47, 1419, 1423, 2877
                        "ISO", "STALL", "SEQ", "EP"},                    \* 2878, 2885
   DEV_STAT        |-> {"EP0", "USBA"},                                  \* 2902, 2916
   HPI_IRQ_ROUTING |-> {"SOF1_CPU", "SOF1_HPI", "SOF2_CPU", "SOF2_HPI"}, \* 2687, 2702
   SPI_CFG         |-> {"CPHA", "Sel"},                                  \* 2035, 2037, 2218
   SPI_CTL         |-> {"RxFull", "TxBitLen", "RxBitLen"},               \* 2078, 2079, 2295
   SPI_IRQ         |-> {"FIFOErr"},                                      \* 2102, 2320
   SPI_TX          |-> {"LEN"}, SPI_RX |-> {"LEN"},                      \* 2173, 2428
   HSS_GAP         |-> {"GAP"},                                          \* 1880, 1982
   ED_ATTR         |-> {"TYPE", "UNUSED"},                               \* 2995, 3083, 3085
   VECTORS         |-> {<<0, "START_SRP">>, <<0, "PWR_DOWN">>,           \* 3275, 3311
                        <<0, "REMOTE_WAKEUP">>, <<0, "OTG_DESC">>},      \* 3274, 3310
   CHIP            |-> {"SOF_CNT1", "SOF_LO1", "SOF_CTR1", "SOF_HI1",    \* 1262, 1276, 2816
                        "SOF_CNT2", "SOF_LO2", "SOF_CTR2", "SOF_HI2"}]
Disputed(r) == IF r \in DOMAIN Disputes THEN Disputes[r] ELSE {}

\* None of them is a pretext: what is disputed clashes with some field.
ASSUME RegistersAssumption ==
  /\ MaxWrites \in Nat
  /\ \A r \in DOMAIN Disputes : \A f \in Disputes[r] :
       \E i, k \in DOMAIN Registers[r] : \E g \in DOMAIN Registers[r][k] :
         /\ f \in DOMAIN Registers[r][i]
         /\ IF f = g THEN Registers[r][i][f] # Registers[r][k][g]
                     ELSE Registers[r][i][f] \intersect Registers[r][k][g] # {}
-----------------------------------------------------------------------------
VARIABLES at,     \* the register
          value,  \* its cells that are one
          told,   \* the fields that were set and not cleared since
          writes
chipVars == <<at, value, told, writes>>

Vocabularies == {Registers[at][i] : i \in DOMAIN Registers[at]}

\* A field is set or cleared by its name in one of the vocabularies: what
\* value |= mask and value &= ~mask do.
Set(v, f) == value' = value \union v[f] /\ told' = told \union {f}
Clear(v, f) == value' = value \ v[f] /\ told' = told \ {f}
Write(v, f) ==
  /\ writes < MaxWrites /\ writes' = writes + 1 /\ UNCHANGED at
  /\ Set(v, f) \/ Clear(v, f)

ChipInit == at \in DOMAIN Registers /\ value = {} /\ told = {} /\ writes = 0
ChipNext == \E v \in Vocabularies : \E f \in DOMAIN v : Write(v, f)
ChipSpec == ChipInit /\ [][ChipNext]_chipVars
-----------------------------------------------------------------------------
=============================================================================
