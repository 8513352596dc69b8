-------------------------- MODULE MultiMenuProofs --------------------------
(***************************************************************************)
(* Proofs about MultiMenu: what the address sprites show for every octet   *)
(* and every port, that the twelfth is the only digit whose presses go     *)
(* astray, and that no screen leaves its sprites behind.                   *)
(***************************************************************************)
EXTENDS MultiMenu, TLAPS

LEMMA Tenth ==
  ASSUME NEW n \in Nat
  PROVE  n = 10 * (n \div 10) + (n % 10) /\ n % 10 \in 0 .. 9 /\ n \div 10 \in Nat
  OBVIOUS

(***************************************************************************)
(* The digits drawn for an octet make up its value, and those hidden are   *)
(* its leading zeros (update_ip_visual).                                   *)
(***************************************************************************)
THEOREM OctetIsShown ==
  ASSUME NEW n \in 0 .. 255
  PROVE  LET d == OctetDigits(n) IN
         /\ n = 100 * d[1] + 10 * d[2] + d[3]
         /\ \A k \in 1 .. 3 : d[k] \in 0 .. 9
         /\ OctetShows(d, 1) <=> n >= 100
         /\ OctetShows(d, 2) <=> n >= 10
         /\ OctetShows(d, 3)
  <1> DEFINE h == n \div 100
             t == n \div 10
             u == n % 10
             v == t % 10
  <1>1. n = 10 * t + u /\ u \in 0 .. 9 /\ t \in 0 .. 25
    OBVIOUS
  <1>2. t = 10 * h + v /\ v \in 0 .. 9 /\ h \in 0 .. 2 /\ h % 10 = h
    OBVIOUS
  <1>3. OctetDigits(n) = <<h, v, u>>
    BY <1>2 DEF OctetDigits
  <1> HIDE DEF h, t, u, v
  <1>4. n = 100 * h + 10 * v + u
    BY <1>1, <1>2
  <1>5. (h # 0 <=> n >= 100) /\ (v # 0 \/ h # 0 <=> n >= 10)
    BY <1>1, <1>2
  <1>7. \A k \in 1 .. 3 : <<h, v, u>>[k] \in 0 .. 9
    BY <1>1, <1>2
  <1> DEFINE d == OctetDigits(n)
  <1>8. d[1] = h /\ d[2] = v /\ d[3] = u /\ \A k \in 1 .. 3 : d[k] \in 0 .. 9
    BY <1>3, <1>7
  <1> HIDE DEF d
  <1>9. /\ OctetShows(d, 1) <=> h # 0
        /\ OctetShows(d, 2) <=> v # 0 \/ h # 0
        /\ OctetShows(d, 3)
    <2>1. \A k \in 1 .. 2 : k = 1 \/ k = 2
      OBVIOUS
    <2>2. 1 \in 1 .. 1 /\ 1 \in 1 .. 2 /\ 2 \in 1 .. 2 /\ \A k \in 1 .. 1 : k = 1
      OBVIOUS
    <2> QED BY <1>8, <2>1, <2>2 DEF OctetShows
  <1>10. /\ n = 100 * d[1] + 10 * d[2] + d[3] /\ \A k \in 1 .. 3 : d[k] \in 0 .. 9
         /\ OctetShows(d, 1) <=> n >= 100
         /\ OctetShows(d, 2) <=> n >= 10
         /\ OctetShows(d, 3)
    BY <1>4, <1>5, <1>8, <1>9
  <1> QED BY <1>10 DEF d

(***************************************************************************)
(* The digits drawn for a port make up its value, and a digit is hidden    *)
(* exactly when it and all before it are zero: port 0 shows no digit.      *)
(***************************************************************************)
THEOREM PortIsShown ==
  ASSUME NEW n \in Nat, n < 65536
  PROVE  LET d == PortDigits(n) IN
         /\ n = 10000 * d[1] + 1000 * d[2] + 100 * d[3] + 10 * d[4] + d[5]
         /\ \A k \in 1 .. 5 : d[k] \in 0 .. 9
         /\ (\E k \in 1 .. 5 : PortShows(d, k)) <=> n # 0
  <1> DEFINE a == n \div 10
             b == n \div 100
             c == n \div 1000
             e == n \div 10000
             d == PortDigits(n)
  <1>1. a \div 10 = b /\ b \div 10 = c /\ c \div 10 = e /\ n \in Nat
    OBVIOUS
  <1>2. e \in 0 .. 6 /\ e % 10 = e
    <2>1. 0 <= e /\ e <= 6 /\ e \in Int
      OBVIOUS
    <2> HIDE DEF e
    <2> QED BY <2>1
  <1>3. d = <<e % 10, c % 10, b % 10, a % 10, n % 10>>
    BY DEF PortDigits
  <1>4. d[1] = e /\ d[2] = c % 10 /\ d[3] = b % 10 /\ d[4] = a % 10 /\ d[5] = n % 10
    BY <1>2, <1>3
  <1>5. n = 10 * a + (n % 10) /\ n % 10 \in 0 .. 9 /\ a \in Nat
    BY Tenth
  <1> HIDE DEF a, b, c, e, d
  <1>6. a = 10 * b + (a % 10) /\ a % 10 \in 0 .. 9 /\ b \in Nat
    BY <1>1, <1>5, Tenth
  <1>7. b = 10 * c + (b % 10) /\ b % 10 \in 0 .. 9 /\ c \in Nat
    BY <1>1, <1>6, Tenth
  <1>8. c = 10 * e + (c % 10) /\ c % 10 \in 0 .. 9
    BY <1>1, <1>7, Tenth
  <1>9. /\ d[1] \in 0 .. 9 /\ d[2] \in 0 .. 9 /\ d[3] \in 0 .. 9
        /\ d[4] \in 0 .. 9 /\ d[5] \in 0 .. 9
    BY <1>2, <1>4, <1>5, <1>6, <1>7, <1>8
  <1>10. n = 10000 * d[1] + 1000 * d[2] + 100 * d[3] + 10 * d[4] + d[5]
    BY <1>2, <1>4, <1>5, <1>6, <1>7, <1>8
  <1>11. ASSUME NEW k \in 1 .. 5 PROVE k = 1 \/ k = 2 \/ k = 3 \/ k = 4 \/ k = 5
    OBVIOUS
  <1>12. \A k \in 1 .. 5 : d[k] \in 0 .. 9
    BY <1>9, <1>11
  <1>13. n = 0 <=> d[1] = 0 /\ d[2] = 0 /\ d[3] = 0 /\ d[4] = 0 /\ d[5] = 0
    <2>1. n = 0 <=> a = 0 /\ n % 10 = 0
      BY <1>5
    <2>2. a = 0 <=> b = 0 /\ a % 10 = 0
      BY <1>5, <1>6
    <2>3. b = 0 <=> c = 0 /\ b % 10 = 0
      BY <1>6, <1>7
    <2>4. c = 0 <=> e = 0 /\ c % 10 = 0
      BY <1>2, <1>7, <1>8
    <2> QED BY <2>1, <2>2, <2>3, <2>4, <1>4
  <1>14. (\E k \in 1 .. 5 : d[k] # 0) <=> n # 0
    BY <1>11, <1>13
  <1>15. \A k \in 1 .. 5 : PortShows(d, k) <=> \E j \in 1 .. k : d[j] # 0
    BY DEF PortShows
  <1>16. (\E k \in 1 .. 5 : PortShows(d, k)) <=> n # 0
    <2>1. ASSUME NEW k \in 1 .. 5, NEW j \in 1 .. k PROVE j \in 1 .. 5 /\ k \in 1 .. k
      OBVIOUS
    <2> QED BY <2>1, <1>14, <1>15
  <1> QED BY <1>10, <1>12, <1>16 DEF d

-----------------------------------------------------------------------------
LeftoverIsChar == Leftover \subseteq -128 .. 127

\* The index is a char, and inside the digits once the Join screen was drawn.
DigitInside ==
  /\ LeftoverIsChar
  /\ ip_digit \in -128 .. 127
  /\ menu = JOIN /\ prev = JOIN => ip_digit \in 0 .. 16

LEMMA CharIsChar == ASSUME NEW x \in Int PROVE Char(x) \in -128 .. 127
  BY DEF Char

LEMMA WalkStaysChar ==
  ASSUME NEW i \in -128 .. 127, NEW pad
  PROVE  Right(Left(i, pad), pad) \in -128 .. 127
  <1>1. Left(i, pad) \in -128 .. 127
    BY CharIsChar DEF Left
  <1>2. Left(i, pad) + 1 \in Int
    BY <1>1
  <1>3. Char(Left(i, pad) + 1) \in -128 .. 127
    BY <1>2, CharIsChar
  <1> QED BY <1>1, <1>3 DEF Right

LEMMA WalkStaysInside ==
  ASSUME NEW i \in 0 .. 16, NEW pad
  PROVE  Right(Left(i, pad), pad) \in 0 .. 16
  <1>1. Left(i, pad) \in 0 .. 16
    BY DEF Left, Char
  <1> QED BY <1>1 DEF Right, Char

LEMMA InsideInit == LeftoverIsChar /\ Init => DigitInside
  BY DEF Init, DigitInside, OUT, JOIN

LEMMA InsideStep == DigitInside /\ [Next]_vars => DigitInside'
  <1> SUFFICES ASSUME DigitInside, [Next]_vars PROVE DigitInside'
    OBVIOUS
  <1> USE DEF DigitInside, LeftoverIsChar
  <1>1. CASE MultiMenuLoop
    BY <1>1 DEF MultiMenuLoop, JOIN
  <1>2. CASE GameScreen
    BY <1>2 DEF GameScreen, Leave, OUT, JOIN
  <1>3. CASE Session
    BY <1>3 DEF Session
  <1>4. CASE ExitingFrame
    BY <1>4 DEF ExitingFrame, Leave, GoTo, OUT, EXITING, JOIN
  <1>5. ASSUME NEW pad \in SUBSET Buttons, TypeMenuFrame(pad) PROVE DigitInside'
    BY <1>5 DEF TypeMenuFrame, GoTo, MPTYPE, HOST, EXITING, JOIN
  <1>6. ASSUME NEW pad \in SUBSET Buttons, HostFrame(pad) PROVE DigitInside'
    BY <1>6 DEF HostFrame, GoTo, MPTYPE, HOST, JOIN
  <1>7. ASSUME NEW pad \in SUBSET Buttons, JoiningFrame(pad) PROVE DigitInside'
    BY <1>7 DEF JoiningFrame, GoTo, JOINING, JOIN
  <1>8. ASSUME NEW pad \in SUBSET Buttons, JoinFrame(pad) PROVE DigitInside'
    <2> DEFINE i == Right(Left(ip_digit, pad), pad)
    <2>1. i \in -128 .. 127
      BY WalkStaysChar
    <2>4. Clamp(i) \in 0 .. 16
      <3> HIDE DEF i
      <3> QED BY <2>1 DEF Clamp
    <2>2. ip_digit \in 0 .. 16 => i \in 0 .. 16
      BY WalkStaysInside
    <2>3. ip_digit' = Clamp(i) \/ (ip_digit' = i /\ prev = JOIN /\ menu = JOIN)
      BY <1>8 DEF JoinFrame
    <2> HIDE DEF i
    <2> QED BY <2>2, <2>3, <2>4
  <1>9. CASE UNCHANGED vars
    BY <1>9 DEF vars
  <1> QED BY <1>1, <1>2, <1>3, <1>4, <1>5, <1>6, <1>7, <1>8, <1>9 DEF Next, Frame

(***************************************************************************)
(* From the second frame of the Join screen on, the index is one of the    *)
(* seventeen digits, whatever malloc left in it.                           *)
(***************************************************************************)
THEOREM DigitIsInside == LeftoverIsChar /\ Spec => []DigitInside
  BY InsideInit, InsideStep, PTL DEF Spec

\* For every digit but the twelfth, a press is what the underscore says.
LEMMA OtherDigitsAreMeant ==
  ASSUME NEW e \in Entries, NEW i \in 0 .. 16, i # 12, NEW n \in Int
  PROVE  Changed(e, i, n) = Meant(e, i, n)
  BY DEF Changed, Meant

LEMMA PortIsNumber == ASSUME NEW p \in Ports PROVE p \in Nat
  BY DEF Ports

\* The twelfth stands for ten thousand and counts in hundreds.
LEMMA TwelfthGoesAstray ==
  ASSUME NEW e \in Entries, e.port < 55000
  PROVE  Meant(e, 12, 1).port = e.port + 10000 /\ Changed(e, 12, 1).port <= e.port + 100
  <1> DEFINE p == e.port
  <1>1. p \in Nat /\ p < 55000
    <2>1. p \in Ports
      BY DEF Entries
    <2>2. p < 55000
      OBVIOUS
    <2> HIDE DEF p
    <2>3. p \in Nat
      BY <2>1, PortIsNumber
    <2> QED BY <2>2, <2>3
  <1>2. Meant(e, 12, 1) = [e EXCEPT !.port = (p + 10000) % 65536]
    BY DEF Meant, AddToPort, TenThousands
  <1>3. Changed(e, 12, 1) = [e EXCEPT !.port = (p - (p % 256)) + (((p % 256) + 100) % 256)]
    BY DEF Changed, AddToLowByte, Hundreds
  <1>4. Meant(e, 12, 1).port = (p + 10000) % 65536
    BY <1>2 DEF Entries
  <1>5. Changed(e, 12, 1).port = (p - (p % 256)) + (((p % 256) + 100) % 256)
    BY <1>3 DEF Entries
  <1> HIDE DEF p
  <1>6. (p + 10000) % 65536 = p + 10000
    BY <1>1
  <1>7. (p - (p % 256)) + (((p % 256) + 100) % 256) <= p + 100
    BY <1>1
  <1> QED BY <1>4, <1>5, <1>6, <1>7 DEF p

(***************************************************************************)
(* Entering an address goes wrong at the twelfth digit only: where the     *)
(* entry was what the presses stand for, it still is after a frame with    *)
(* the underscore elsewhere.                                               *)
(***************************************************************************)
OnlyTheTwelfth ==
  menu = JOIN /\ prev = JOIN /\ ip_digit' # 12 /\ entry \in Entries /\ entry = want
    => entry' = want'

THEOREM OthersAreEntered == LeftoverIsChar /\ Spec => [][OnlyTheTwelfth]_vars
  <1>1. DigitInside /\ [Next]_vars => [OnlyTheTwelfth]_vars
    <2> SUFFICES ASSUME DigitInside, Next, menu = JOIN, prev = JOIN, ip_digit' # 12,
                        entry \in Entries, entry = want
                 PROVE  entry' = want'
      BY DEF OnlyTheTwelfth
    <2>1. CASE UNCHANGED <<entry, want>>
      BY <2>1
    <2>2. ASSUME NEW pad \in SUBSET Buttons, JoinFrame(pad) PROVE entry' = want'
      <3> DEFINE i == Right(Left(ip_digit, pad), pad)
                 n == Change(pad)
      <3>1. ip_digit \in 0 .. 16 /\ i \in 0 .. 16 /\ Clamp(i) = i
        BY WalkStaysInside DEF DigitInside, Clamp
      <3>2. ip_digit' = i
        BY <2>2, <3>1 DEF JoinFrame
      <3>3. n \in Int
        BY DEF Change
      <3>4. /\ entry' = IF n = 0 THEN entry ELSE Changed(entry, i, n)
            /\ want' = IF n = 0 THEN want ELSE Meant(want, Clamp(i), n)
        BY <2>2 DEF JoinFrame
      <3> HIDE DEF i, n
      <3> QED BY <3>1, <3>2, <3>3, <3>4, OtherDigitsAreMeant
    <2>3. menu # OUT /\ menu # MPTYPE /\ menu # 0 /\ menu # HOST /\ menu # JOINING
          /\ menu # EXITING /\ menu \notin 1 .. 4
      BY DEF OUT, MPTYPE, HOST, JOIN, JOINING, EXITING
    <2>4. ~MultiMenuLoop /\ ~GameScreen /\ ~ExitingFrame
      BY <2>3 DEF MultiMenuLoop, GameScreen, ExitingFrame
    <2>5. \A pad \in SUBSET Buttons :
            ~TypeMenuFrame(pad) /\ ~HostFrame(pad) /\ ~JoiningFrame(pad)
      BY <2>3 DEF TypeMenuFrame, HostFrame, JoiningFrame
    <2>6. Session => UNCHANGED <<entry, want>>
      BY DEF Session
    <2> QED BY <2>1, <2>2, <2>4, <2>5, <2>6 DEF Next, Frame
  <1> QED BY <1>1, DigitIsInside, PTL DEF Spec

-----------------------------------------------------------------------------
(***************************************************************************)
(* Whatever way a player takes through the screens, only the sprites of    *)
(* the screen the player is on can be seen: an overlay that HostFrame has  *)
(* left enabled is clear until the Exiting screen, which only leads out.   *)
(***************************************************************************)
Groups(m) ==
  CASE m \in {MPTYPE, EXITING} -> TypeMenu
    [] m = HOST -> HostMenu
    [] m = JOIN -> JoinMenu
    [] m = JOINING -> Connecting
    [] OTHER -> {}

ScreenInv ==
  menu # OUT =>
    /\ shown \ {"overlay"} = Groups(menu)
    /\ menu # EXITING => fade = "clear"
    /\ menu = EXITING => "overlay" \in shown

THEOREM ScreensAreApart == Spec => []OneScreenIsShown
  <1> USE DEF OUT, EXITING, MPTYPE, HOST, JOIN, JOINING
  <1>1. Init => ScreenInv
    BY DEF Init, ScreenInv
  <1>2. ScreenInv /\ [Next]_vars => ScreenInv'
    <2> USE DEF ScreenInv, Groups, TypeMenu, HostMenu, JoinMenu, Connecting
    <2> SUFFICES ASSUME ScreenInv, [Next]_vars PROVE ScreenInv'
      OBVIOUS
    <2>1. CASE MultiMenuLoop
      BY <2>1 DEF MultiMenuLoop
    <2>2. CASE GameScreen
      BY <2>2 DEF GameScreen, Leave
    <2>3. CASE Session
      BY <2>3 DEF Session
    <2>4. CASE ExitingFrame
      BY <2>4 DEF ExitingFrame, Leave, GoTo, Switch
    <2>5. ASSUME NEW pad \in SUBSET Buttons, TypeMenuFrame(pad) PROVE ScreenInv'
      BY <2>5 DEF TypeMenuFrame, GoTo, Switch
    <2>6. ASSUME NEW pad \in SUBSET Buttons, HostFrame(pad) PROVE ScreenInv'
      BY <2>6 DEF HostFrame, GoTo, Switch
    <2>7. ASSUME NEW pad \in SUBSET Buttons, JoinFrame(pad) PROVE ScreenInv'
      BY <2>7 DEF JoinFrame, GoTo, Switch
    <2>8. ASSUME NEW pad \in SUBSET Buttons, JoiningFrame(pad) PROVE ScreenInv'
      BY <2>8 DEF JoiningFrame, GoTo, Switch
    <2>9. CASE UNCHANGED vars
      BY <2>9 DEF vars
    <2> QED BY <2>1, <2>2, <2>3, <2>4, <2>5, <2>6, <2>7, <2>8, <2>9 DEF Next, Frame
  <1>3. ScreenInv => OneScreenIsShown
    <2> SUFFICES ASSUME ScreenInv, menu # OUT PROVE Visible = SpritesOf(menu)
      BY DEF OneScreenIsShown
    <2>1. "overlay" \notin Groups(menu)
      BY DEF Groups, TypeMenu, HostMenu, JoinMenu, Connecting
    <2>2. SpritesOf(menu) = Groups(menu) \cup
            (IF menu = EXITING /\ fade # "clear" THEN {"overlay"} ELSE {})
      BY DEF SpritesOf, Groups
    <2> QED BY <2>1, <2>2 DEF ScreenInv, Visible
  <1> QED BY <1>1, <1>2, <1>3, PTL DEF Spec
=============================================================================
