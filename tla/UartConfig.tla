----------------------------- MODULE UartConfig -----------------------------
(***************************************************************************)
(* The first segment of a connection configures the UART: what the client   *)
(* puts in it (MainForm, TcpForm.Init) and what the ACCEPTED case of        *)
(* echo_recv and UART_HAL_SetBaudRate make of it.  The client sends the     *)
(* indices of the four combo boxes; the registers keep what an earlier      *)
(* connection left in them wherever the firmware has no case for an index.  *)
(***************************************************************************)
EXTENDS Integers, Sequences

CONSTANT UartClock      \* CLOCK_SYS_GetUartFreq(0): the system clock, in Hz

(* 32*sourceClockInHz fits in a uint32_t, as UART_HAL_SetBaudRate takes it *)
MaxClock == 134217727
ASSUME UartConfigAssumption == UartClock \in 1..MaxClock

VARIABLES
  choice,      \* the indices selected for the last connection
  sbr, brfa,   \* BDH/BDL.SBR and C4.BRFA: divisor and its 1/32 fraction
  C1,          \* C1: M, PE and PT, each 0 or 1
  SBNS         \* BDH.SBNS: 1 for two stop bits

vars == <<choice, sbr, brfa, C1, SBNS>>

-----------------------------------------------------------------------------
(***************************************************************************)
(* The client: what each index is labelled.                                *)
(***************************************************************************)
BaudLabel == <<110, 150, 300, 1200, 2400, 4800, 9600, 19200, 38400, 57600,
               115200, 230400, 460800, 921600>>
DataLabel == <<5, 6, 7, 8>>
ParityLabel == <<"None", "Even", "Odd", "Mark", "Space">>
StopLabel == <<1, 2>>

Choice == [baud : 0..13, data : 0..3, parity : 0..4, stop : 0..1]

(* RsParams, tempbuff in the firmware *)
Frame(c) == <<c.baud, c.data, c.parity, c.stop>>

Label(c) == [baud |-> BaudLabel[c.baud + 1], data |-> DataLabel[c.data + 1],
             parity |-> ParityLabel[c.parity + 1], stop |-> StopLabel[c.stop + 1]]

DefaultChoice == [baud |-> 10, data |-> 3, parity |-> 0, stop |-> 0]

-----------------------------------------------------------------------------
(***************************************************************************)
(* The firmware.                                                           *)
(***************************************************************************)
baudRate == <<110, 150, 300, 1200, 2400, 4800, 9600, 19200, 38400, 57600,
              115200, 230400, 460800, 921600>>

(* UART_BDH.SBR and UART_BDL.SBR: 13 bits *)
MaxSbr == 8191

(* sbr is a uint16_t *)
Divisor(baud) == (UartClock \div (baud * 16)) % 65536

(* 32*clock/(baud*16) - 32*sbr, of which the register keeps five bits *)
Fraction(baud) == ((2 * UartClock) \div baud - 32 * Divisor(baud)) % 32

(* the upper half of the range check left out *)
SbrFitsMutant(baud) == Divisor(baud) >= 1

(* a divisor the register can hold; otherwise an error, which echo_recv drops *)
SbrFits(baud) == Divisor(baud) \in 1..MaxSbr

(* the fraction is written only when there is one *)
UART_HAL_SetBaudRateMutant(baud) ==
  IF SbrFits(baud)
    THEN /\ sbr' = Divisor(baud)
         /\ brfa' = IF Fraction(baud) = 0 THEN brfa ELSE Fraction(baud)
    ELSE UNCHANGED <<sbr, brfa>>

UART_HAL_SetBaudRate(baud) ==
  IF SbrFits(baud)
    THEN sbr' = Divisor(baud) /\ brfa' = Fraction(baud)
    ELSE UNCHANGED <<sbr, brfa>>

BitsOf(d, m) == IF d = 3 THEN 0 ELSE IF d = 2 THEN 1 ELSE m

ParityOf(x, c1) ==
  IF x = 0 THEN [c1 EXCEPT !.PE = 0]
  ELSE IF x = 2 THEN [c1 EXCEPT !.PE = 1, !.PT = 0]
  ELSE IF x = 1 THEN [c1 EXCEPT !.PE = 1, !.PT = 1]
  ELSE c1

(* read from tempbuff[2] *)
StopOf(x, s) == IF x \in {0, 1} THEN x ELSE s

(* tempbuff[1] sets the bit M but never clears it *)
ConfigureMutant(f) ==
  /\ UART_HAL_SetBaudRate(baudRate[f[1] + 1])
  /\ C1' = ParityOf(f[3], [C1 EXCEPT !.M = IF f[2] = 2 THEN 1 ELSE @])
  /\ SBNS' = StopOf(f[3], SBNS)

Configure(f) ==
  /\ UART_HAL_SetBaudRate(baudRate[f[1] + 1])
  /\ C1' = ParityOf(f[3], [C1 EXCEPT !.M = BitsOf(f[2], @)])
  /\ SBNS' = StopOf(f[3], SBNS)

(* UART_DRV_Init at start: 9600 baud, 8 bits, no parity, 1 stop bit *)
Init ==
  /\ choice = [baud |-> 6, data |-> 3, parity |-> 0, stop |-> 0]
  /\ sbr = Divisor(9600)
  /\ brfa = Fraction(9600)
  /\ C1 = [M |-> 0, PE |-> 0, PT |-> 0]
  /\ SBNS = 0

Connect(c) ==
  /\ choice' = c
  /\ Configure(Frame(c))

Next == \E c \in Choice : Connect(c)

Spec == Init /\ [][Next]_vars

-----------------------------------------------------------------------------
(***************************************************************************)
(* What the registers mean, and the properties.                            *)
(***************************************************************************)
ParityMode ==
  IF C1.PE = 0 THEN "None" ELSE IF C1.PT = 0 THEN "Even" ELSE "Odd"
BitCount == IF C1.M = 1 THEN 9 ELSE 8
StopCount == SBNS + 1

(* The UART runs at UartClock / (16 * (sbr + brfa/32)): as near to this      *)
(* rate as the fraction allows.                                            *)
RunsAt(baud) ==
  /\ baud * (32 * sbr + brfa) <= 2 * UartClock
  /\ 2 * UartClock < baud * (32 * sbr + brfa + 1)

(* Every register field holds a value it can hold. *)
TypeOK ==
  /\ choice \in Choice
  /\ sbr \in 1..MaxSbr
  /\ brfa \in 0..31
  /\ C1 \in [M : 0..1, PE : 0..1, PT : 0..1]
  /\ SBNS \in 0..1

(***************************************************************************)
(* From 1200 baud on the UART runs at the rate selected, truncations to 16  *)
(* and to 5 bits included, whatever rate it ran at before.                 *)
(***************************************************************************)
RateFrom1200 == Label(choice).baud >= 1200 => RunsAt(Label(choice).baud)

(***************************************************************************)
(* The selection the client starts with gives 115200 baud, 8 bits, no       *)
(* parity and 1 stop bit, whatever earlier connections selected.            *)
(***************************************************************************)
DefaultRestores ==
  choice = DefaultChoice =>
    RunsAt(115200) /\ BitCount = 8 /\ ParityMode = "None" /\ StopCount = 1

(***************************************************************************)
(* The rate on the client's label is the rate the UART runs at: not so      *)
(* below 1200 baud, where the divisor does not fit.                        *)
(***************************************************************************)
BaudAsLabelled == RunsAt(Label(choice).baud)

(***************************************************************************)
(* So are the character length, parity and stop bits on the labels, of      *)
(* those the firmware has a case for: none of the three is, as "7 bits"     *)
(* sets nine, Even and Odd are exchanged, and the stop bits are taken from  *)
(* the byte of the parity.                                                 *)
(***************************************************************************)
FormatAsLabelled ==
  /\ Label(choice).data \in {7, 8} => BitCount = Label(choice).data
  /\ Label(choice).parity \in {"None", "Even", "Odd"} =>
       ParityMode = Label(choice).parity
  /\ StopCount = Label(choice).stop

(* The UART is set to what the four labels say.  The code breaks both parts. *)
AsLabelled == BaudAsLabelled /\ FormatAsLabelled
=============================================================================
