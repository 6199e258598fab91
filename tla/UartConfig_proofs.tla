-------------------------- MODULE UartConfig_proofs --------------------------
(***************************************************************************)
(* What the UART registers hold after any sequence of connections, for      *)
(* every clock that divides down to the rates the client offers.           *)
(***************************************************************************)
EXTENDS UartConfig, TLAPS

(* The divisor of the fastest rate is not zero: the board's clock is 120 MHz. *)
FastEnough == UartClock >= 16 * 921600

(* The rates whose divisor fits, whatever the clock. *)
Fitting == {1200, 2400, 4800, 9600, 19200, 38400, 57600, 115200, 230400, 460800, 921600}

-----------------------------------------------------------------------------
LEMMA ClockRange == UartClock \in Nat /\ UartClock > 0 /\ UartClock <= MaxClock
<1>1. MaxClock \in Int
  BY SMT DEF MaxClock
<1> QED
  BY <1>1, UartConfigAssumption, SMT

LEMMA SbrRange ==
  ASSUME NEW baud
  PROVE  SbrFits(baud) <=> Divisor(baud) \in Int /\ Divisor(baud) >= 1 /\ Divisor(baud) <= 8191
<1>1. MaxSbr \in Int
  BY SMT DEF MaxSbr
<1>2. SbrFits(baud) <=> Divisor(baud) \in Int /\ Divisor(baud) >= 1 /\ Divisor(baud) <= MaxSbr
  BY <1>1, SMT DEF SbrFits
<1> QED
  BY <1>2, SMT DEF MaxSbr

(* The 16-bit divisor and the five bits of the fraction lose nothing: together *)
(* they are the clock divided by half the rate. *)
LEMMA Exact ==
  ASSUME FastEnough, NEW baud \in Fitting
  PROVE  /\ SbrFits(baud)
         /\ Fraction(baud) \in 0..31
         /\ 32 * Divisor(baud) + Fraction(baud) = (2 * UartClock) \div baud
         /\ baud * ((2 * UartClock) \div baud) <= 2 * UartClock
         /\ 2 * UartClock < baud * ((2 * UartClock) \div baud + 1)
<1> DEFINE Fits(b) == /\ Divisor(b) \in Int /\ Divisor(b) >= 1 /\ Divisor(b) <= 8191
                      /\ Fraction(b) \in 0..31
                      /\ 32 * Divisor(b) + Fraction(b) = (2 * UartClock) \div b
                      /\ b * ((2 * UartClock) \div b) <= 2 * UartClock
                      /\ 2 * UartClock < b * ((2 * UartClock) \div b + 1)
<1>1. Fits(1200)
  BY ClockRange, SMT DEF FastEnough, Divisor, Fraction, MaxClock
<1>2. Fits(2400)
  BY ClockRange, SMT DEF FastEnough, Divisor, Fraction, MaxClock
<1>3. Fits(4800)
  BY ClockRange, SMT DEF FastEnough, Divisor, Fraction, MaxClock
<1>4. Fits(9600)
  BY ClockRange, SMT DEF FastEnough, Divisor, Fraction, MaxClock
<1>5. Fits(19200)
  BY ClockRange, SMT DEF FastEnough, Divisor, Fraction, MaxClock
<1>6. Fits(38400)
  BY ClockRange, SMT DEF FastEnough, Divisor, Fraction, MaxClock
<1>7. Fits(57600)
  BY ClockRange, SMT DEF FastEnough, Divisor, Fraction, MaxClock
<1>8. Fits(115200)
  BY ClockRange, SMT DEF FastEnough, Divisor, Fraction, MaxClock
<1>9. Fits(230400)
  BY ClockRange, SMT DEF FastEnough, Divisor, Fraction, MaxClock
<1>10. Fits(460800)
  BY ClockRange, SMT DEF FastEnough, Divisor, Fraction, MaxClock
<1>11. Fits(921600)
  BY ClockRange, SMT DEF FastEnough, Divisor, Fraction, MaxClock
<1> HIDE DEF Fits
<1>12. Fits(baud)
  BY <1>1, <1>2, <1>3, <1>4, <1>5, <1>6, <1>7, <1>8, <1>9, <1>10, <1>11, SMT DEF Fitting
<1> QED
  BY <1>12, SbrRange, SMT DEF Fits

LEMMA Runs ==
  ASSUME FastEnough, NEW baud \in Fitting, sbr = Divisor(baud), brfa = Fraction(baud)
  PROVE  RunsAt(baud)
<1>1. 32 * sbr + brfa = (2 * UartClock) \div baud
  BY Exact, SMT
<1>2. 32 * sbr + brfa + 1 = (2 * UartClock) \div baud + 1
  BY <1>1, SMT
<1> QED
  BY <1>1, <1>2, Exact, SMT DEF RunsAt

(* The firmware's rates are the client's. *)
LEMMA Rates ==
  ASSUME NEW k \in 0..13
  PROVE  /\ baudRate[k + 1] \in Nat /\ baudRate[k + 1] > 0
         /\ BaudLabel[k + 1] = baudRate[k + 1]
         /\ baudRate[k + 1] >= 1200 => baudRate[k + 1] \in Fitting
BY SMT DEF baudRate, BaudLabel, Fitting
-----------------------------------------------------------------------------
(* What a connection leaves in the registers. *)
LEMMA RegistersTyped ==
  ASSUME TypeOK, NEW c \in Choice, Connect(c)
  PROVE  TypeOK'
<1>1. c.baud \in 0..13 /\ c.data \in 0..3 /\ c.parity \in 0..4
  BY DEF Choice
<1>2. /\ Frame(c)[1] = c.baud /\ Frame(c)[2] = c.data /\ Frame(c)[3] = c.parity
  BY DEF Frame
<1> DEFINE baud == baudRate[c.baud + 1]
<1>3. baud \in Nat /\ baud > 0
  BY <1>1, Rates
<1>4. sbr' \in 1..MaxSbr /\ brfa' \in 0..31
  <2>1. UART_HAL_SetBaudRate(baud)
    BY <1>2 DEF Connect, Configure
  <2>2. Fraction(baud) \in 0..31
    BY <1>3, ClockRange, SMT DEF Fraction, Divisor
  <2>3. SbrFits(baud) => Divisor(baud) \in 1..MaxSbr
    BY DEF SbrFits
  <2> QED
    BY <2>1, <2>2, <2>3, SMT DEF UART_HAL_SetBaudRate, TypeOK
<1>5. C1' \in [M : 0..1, PE : 0..1, PT : 0..1]
  <2>1. C1 \in [M : 0..1, PE : 0..1, PT : 0..1]
    BY DEF TypeOK
  <2>2. C1' = ParityOf(c.parity, [C1 EXCEPT !.M = BitsOf(c.data, C1.M)])
    BY <1>2 DEF Connect, Configure
  <2>3. BitsOf(c.data, C1.M) \in 0..1
    BY <1>1, <2>1, SMT DEF BitsOf
  <2>4. [C1 EXCEPT !.M = BitsOf(c.data, C1.M)] \in [M : 0..1, PE : 0..1, PT : 0..1]
    BY <2>1, <2>3
  <2>5. ASSUME NEW r \in [M : 0..1, PE : 0..1, PT : 0..1]
        PROVE  ParityOf(c.parity, r) \in [M : 0..1, PE : 0..1, PT : 0..1]
    <3>1. [r EXCEPT !.PE = 0] \in [M : 0..1, PE : 0..1, PT : 0..1]
      BY <2>5
    <3>2. ASSUME NEW b \in 0..1
          PROVE  [r EXCEPT !.PE = 1, !.PT = b] \in [M : 0..1, PE : 0..1, PT : 0..1]
      <4>1. [r EXCEPT !.PE = 1] \in [M : 0..1, PE : 0..1, PT : 0..1]
        BY <2>5
      <4>2. [[r EXCEPT !.PE = 1] EXCEPT !.PT = b] \in [M : 0..1, PE : 0..1, PT : 0..1]
        BY <3>2, <4>1
      <4>3. [r EXCEPT !.PE = 1, !.PT = b] = [[r EXCEPT !.PE = 1] EXCEPT !.PT = b]
        OBVIOUS
      <4> QED
        BY <4>2, <4>3
    <3>3. /\ [r EXCEPT !.PE = 1, !.PT = 0] \in [M : 0..1, PE : 0..1, PT : 0..1]
          /\ [r EXCEPT !.PE = 1, !.PT = 1] \in [M : 0..1, PE : 0..1, PT : 0..1]
      BY <3>2
    <3> QED
      BY <2>5, <3>1, <3>3 DEF ParityOf
  <2> QED
    BY <2>2, <2>4, <2>5
<1>6. SBNS' \in 0..1
  BY <1>1, <1>2, SMT DEF Connect, Configure, StopOf, TypeOK
<1> QED
  BY <1>4, <1>5, <1>6 DEF TypeOK, Connect

LEMMA RateSet ==
  ASSUME FastEnough, NEW c \in Choice, Connect(c)
  PROVE  RateFrom1200'
<1>1. c.baud \in 0..13 /\ choice' = c /\ Frame(c)[1] = c.baud
  BY DEF Choice, Connect, Frame
<1> DEFINE baud == baudRate[c.baud + 1]
<1>2. Label(choice').baud = baud
  BY <1>1, Rates DEF Label
<1>3. ASSUME baud >= 1200 PROVE RunsAt(baud)'
  <2>1. baud \in Fitting
    BY <1>1, <1>3, Rates
  <2>2. sbr' = Divisor(baud) /\ brfa' = Fraction(baud)
    BY <1>1, <2>1, Exact DEF Connect, Configure, UART_HAL_SetBaudRate
  <2>3. 32 * sbr' + brfa' = (2 * UartClock) \div baud
    BY <2>1, <2>2, Exact, SMT
  <2> QED
    BY <2>1, <2>3, Exact, SMT DEF RunsAt
<1> QED
  BY <1>2, <1>3 DEF RateFrom1200

LEMMA DefaultSet ==
  ASSUME TypeOK, RateFrom1200', NEW c \in Choice, Connect(c)
  PROVE  DefaultRestores'
<1> SUFFICES ASSUME c = DefaultChoice
             PROVE  (RunsAt(115200) /\ BitCount = 8 /\ ParityMode = "None" /\ StopCount = 1)'
  BY DEF DefaultRestores, Connect
<1>1. c.baud = 10 /\ c.data = 3 /\ c.parity = 0 /\ choice' = c
  BY DEF DefaultChoice, Connect
<1>2. RunsAt(115200)'
  <2>1. Label(choice').baud = BaudLabel[11]
    BY <1>1 DEF Label
  <2>2. BaudLabel[11] = 115200
    BY SMT DEF BaudLabel
  <2> QED
    BY <2>1, <2>2, SMT DEF RateFrom1200
<1>3. Frame(c)[2] = 3 /\ Frame(c)[3] = 0
  BY <1>1 DEF Frame
<1>4. C1' = [[C1 EXCEPT !.M = 0] EXCEPT !.PE = 0]
  BY <1>3 DEF Connect, Configure, ParityOf, BitsOf
<1>5. C1'.M = 0 /\ C1'.PE = 0
  BY <1>4 DEF TypeOK
<1>6. SBNS' = 0
  BY <1>3 DEF Connect, Configure, StopOf
<1> QED
  BY <1>2, <1>5, <1>6 DEF BitCount, ParityMode, StopCount

-----------------------------------------------------------------------------
IndInv == TypeOK /\ RateFrom1200 /\ DefaultRestores

LEMMA Invariance == FastEnough => (Spec => []IndInv)
<1> SUFFICES ASSUME FastEnough PROVE Spec => []IndInv
  OBVIOUS
<1>1. Init => IndInv
  <2> SUFFICES ASSUME Init PROVE IndInv
    OBVIOUS
  <2>1. 9600 \in Fitting
    BY SMT DEF Fitting
  <2>2. SbrFits(9600) /\ Fraction(9600) \in 0..31
    BY <2>1, Exact
  <2>3. RunsAt(9600)
    BY <2>1, Runs DEF Init
  <2>4. Label(choice).baud = 9600
    BY SMT DEF Init, Label, BaudLabel
  <2>5. choice # DefaultChoice
    BY SMT DEF Init, DefaultChoice
  <2>6. choice \in Choice
    BY DEF Init, Choice
  <2>7. TypeOK
    BY <2>2, <2>6 DEF Init, TypeOK, SbrFits
  <2> QED
    BY <2>3, <2>4, <2>5, <2>7 DEF IndInv, RateFrom1200, DefaultRestores
<1>2. IndInv /\ [Next]_vars => IndInv'
  <2>1. ASSUME IndInv, NEW c \in Choice, Connect(c) PROVE IndInv'
    BY <2>1, RegistersTyped, RateSet, DefaultSet DEF IndInv
  <2>2. ASSUME IndInv, UNCHANGED vars PROVE IndInv'
    BY <2>2 DEF IndInv, vars, TypeOK, RateFrom1200, DefaultRestores, RunsAt, BitCount,
                ParityMode, StopCount
  <2> QED
    BY <2>1, <2>2 DEF Next
<1> QED
  BY <1>1, <1>2, PTL DEF Spec
(* The divisor and its fraction keep to their 13 and 5 bits, and the bits of C1  *)
(* and BDH to 0 and 1, for every clock that divides down to the fastest rate.    *)
THEOREM TypeCorrect == FastEnough => (Spec => []TypeOK)
<1>1. IndInv => TypeOK
  BY DEF IndInv
<1> QED
  BY <1>1, Invariance, PTL

(* From 1200 baud on the UART runs at the rate selected for the last connection,  *)
(* whatever the clock and whatever the connections before it selected.          *)
THEOREM RateCorrect == FastEnough => (Spec => []RateFrom1200)
<1>1. IndInv => RateFrom1200
  BY DEF IndInv
<1> QED
  BY <1>1, Invariance, PTL

(* The client's default selection gives 115200 baud and 8N1 whatever earlier      *)
(* connections left in the registers.                                           *)
THEOREM DefaultCorrect == FastEnough => (Spec => []DefaultRestores)
<1>1. IndInv => DefaultRestores
  BY DEF IndInv
<1> QED
  BY <1>1, Invariance, PTL
=============================================================================
