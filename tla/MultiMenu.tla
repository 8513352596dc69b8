----------------------------- MODULE MultiMenu -----------------------------
(***************************************************************************)
(* The screens the mod adds to the game's multi-player menu (multi_menu.c: *)
(* hMultiMenuHandleScreen): choosing Host, Join or Couch, the address the  *)
(* host shows, and the address and port the joiner enters digit by digit.  *)
(* What becomes of the session is GameNet's subject: here gn_state is set  *)
(* by the screens and changed by the network at any time.                  *)
(*                                                                         *)
(* Sprites are shown and hidden in groups.  Whatever is drawn, the player  *)
(* is meant to be on one screen, and to change the digit the underscore    *)
(* points at: `want' is the address the presses add up to.                 *)
(***************************************************************************)
EXTENDS Integers, Sequences

CONSTANTS Leftover,   \* what malloc may leave in ip_digit, a signed char
          GAME_PORT,
          MaxPress    \* bound of the model: presses of up or down on Join

Buttons == {"UP", "DOWN", "LEFT", "RIGHT", "X", "TRIANGLE"}

\* The game's screens 0 to 4, and the mod's.
OUT == -1
EXITING == 9
MPTYPE  == 10
HOST    == 11
JOIN    == 12
JOINING == 13
Menus   == {OUT} \cup 0 .. 4 \cup EXITING .. JOINING

VARIABLES
  menu,            \* MM_MENUID
  prev,            \* MM_MENUID_PREV, the screen of the frame before
  skip,            \* MM_SKIP_ARG: the game chooses its first screen itself
  gn_state,
  type_menu_item,
  ip_digit,
  entry,           \* connip_visual: the address and port entered
  shown,           \* the groups of sprites that are enabled
  fade,            \* how much fade_overlay covers: its color[3] is 0, less than 1, or 1
  underscore,      \* the digit it is drawn under, 0..11 octets, 12..16 port
  want,            \* history: the address the presses stand for
  press            \* number of presses, for the bound

vars == <<menu, prev, skip, gn_state, type_menu_item, ip_digit, entry, shown, fade,
          underscore, want, press>>

Octets  == 0 .. 3
MaxPort == 65536 - 1
Ports   == 0 .. MaxPort
Entries == [bytes : [Octets -> 0 .. 255], port : Ports]
Broadcast == [bytes |-> [o \in Octets |-> 255], port |-> GAME_PORT]

Init ==
  /\ menu = OUT /\ prev = OUT /\ skip = FALSE /\ gn_state = "IDLE"
  /\ type_menu_item = 0 /\ ip_digit = 0 /\ underscore = 0
  /\ entry = Broadcast /\ want = Broadcast
  /\ shown = {} /\ fade = "clear" /\ press = 0

-----------------------------------------------------------------------------
(***************************************************************************)
(* hMultiMenuLoop and hMultiMenuInitUi.  ip_digit is not set.              *)
(***************************************************************************)
MultiMenuLoop ==
  /\ menu = OUT
  /\ menu' = 0 /\ prev' = OUT /\ skip' \in BOOLEAN
  /\ type_menu_item' = 0 /\ ip_digit' \in Leftover
  /\ entry' = Broadcast /\ want' = Broadcast
  /\ shown' = {} /\ fade' = "clear"
  /\ UNCHANGED <<gn_state, underscore, press>>

Leave(ret) ==
  /\ menu' = OUT /\ prev' = OUT
  /\ gn_state' = IF ret = 0 THEN "IDLE" ELSE gn_state
  /\ UNCHANGED <<skip, type_menu_item, ip_digit, entry, shown, fade, underscore, want,
                 press>>

\* The game's own screens, the couch included, lead to each other or out.
GameScreen ==
  /\ menu \in 1 .. 4 \/ (menu = 0 /\ skip)
  /\ \/ /\ menu' \in 0 .. 4 /\ prev' = menu
        /\ UNCHANGED <<skip, gn_state, type_menu_item, ip_digit, entry, shown, fade,
                       underscore, want, press>>
     \/ \E ret \in {0, 1} : Leave(ret)

\* The network answers a host or a joiner, or ends what there was.
Session ==
  /\ gn_state' \in (IF gn_state = "IDLE" THEN {} ELSE {"IDLE", "CONNECTED"})
  /\ UNCHANGED <<menu, prev, skip, type_menu_item, ip_digit, entry, shown, fade,
                 underscore, want, press>>

-----------------------------------------------------------------------------
\* What the four set_..._enabled functions switch.
TypeMenu   == {"background", "type"}
HostMenu   == {"background", "hostip"}
JoinMenu   == {"background", "connip", "underscore"}
Connecting == {"background", "connecting"}

Switch(off, on) == shown' = (shown \ off) \cup on
GoTo(m) == menu' = m /\ prev' = menu

\* The type menu, also in the frame that opens it.
Moved(pad) ==
  IF "DOWN" \in pad /\ type_menu_item + 1 < 3 THEN type_menu_item + 1
  ELSE IF "UP" \in pad /\ type_menu_item - 1 >= 0 THEN type_menu_item - 1
  ELSE type_menu_item

TypeMenuFrame(pad) ==
  /\ menu = MPTYPE \/ (menu = 0 /\ ~skip)
  /\ type_menu_item' = Moved(pad)
  /\ IF "X" \in pad
     THEN \/ /\ Moved(pad) = 0
             /\ GoTo(HOST) /\ Switch(TypeMenu, HostMenu) /\ gn_state' = "HOSTING"
          \/ /\ Moved(pad) = 1
             /\ GoTo(JOIN) /\ Switch(TypeMenu, JoinMenu) /\ UNCHANGED gn_state
          \/ /\ Moved(pad) = 2
             /\ GoTo(1) /\ Switch(TypeMenu, {}) /\ UNCHANGED gn_state
     ELSE /\ UNCHANGED gn_state
          /\ IF "TRIANGLE" \in pad
             THEN GoTo(EXITING) /\ Switch({}, TypeMenu \cup {"overlay"})
             ELSE GoTo(MPTYPE) /\ Switch({}, TypeMenu)
  /\ UNCHANGED <<skip, ip_digit, entry, fade, underscore, want, press>>

\* The overlay is enabled on the way back too, and stays so.
HostFrame(pad) ==
  /\ menu = HOST
  /\ \/ /\ gn_state = "CONNECTED"
        /\ GoTo(2) /\ Switch(HostMenu, {}) /\ UNCHANGED gn_state
     \/ /\ gn_state # "CONNECTED" /\ "TRIANGLE" \in pad
        /\ GoTo(MPTYPE) /\ Switch(HostMenu, TypeMenu \cup {"overlay"})
        /\ gn_state' = "IDLE"
     \/ /\ gn_state # "CONNECTED" /\ "TRIANGLE" \notin pad
        /\ GoTo(HOST) /\ UNCHANGED <<shown, gn_state>>
  /\ UNCHANGED <<skip, type_menu_item, ip_digit, entry, fade, underscore, want, press>>

JoiningFrame(pad) ==
  /\ menu = JOINING
  /\ \/ /\ gn_state = "CONNECTED"
        /\ GoTo(2) /\ Switch(Connecting, {}) /\ UNCHANGED gn_state
     \/ /\ gn_state # "CONNECTED" /\ "TRIANGLE" \in pad
        /\ GoTo(JOIN) /\ Switch(Connecting, JoinMenu) /\ gn_state' = "IDLE"
     \/ /\ gn_state # "CONNECTED" /\ "TRIANGLE" \notin pad
        /\ GoTo(JOINING) /\ UNCHANGED <<shown, gn_state>>
  /\ UNCHANGED <<skip, type_menu_item, ip_digit, entry, fade, underscore, want, press>>

\* The overlay covers the screen within 61 frames.
ExitingFrame ==
  /\ menu = EXITING
  /\ \/ /\ fade # "full"
        /\ fade' \in (IF fade = "clear" THEN {"partial"} ELSE {"partial", "full"})
        /\ Switch({}, {"overlay"}) /\ GoTo(EXITING)
        /\ UNCHANGED <<skip, gn_state, type_menu_item, ip_digit, entry, underscore, want,
                       press>>
     \/ fade = "full" /\ Leave(1)

-----------------------------------------------------------------------------
(***************************************************************************)
(* The Join screen.  ip_digit walks over twelve octet digits and five port *)
(* digits; the digit sprites of the address and of the port follow each    *)
(* other in ip_visual_t, and so do the bytes of the address and the port,  *)
(* which the EE stores low byte first.                                     *)
(***************************************************************************)
Char(x) == ((x + 128) % 256) - 128
Clamp(i) == IF i > 16 THEN 16 ELSE IF i < 0 THEN 0 ELSE i

Left(i, pad)  == IF "LEFT" \notin pad THEN i
                 ELSE IF Char(i - 1) < 0 THEN 0 ELSE Char(i - 1)
Right(i, pad) == IF "RIGHT" \notin pad THEN i
                 ELSE IF Char(i + 1) > 16 THEN 16 ELSE Char(i + 1)

Change(pad) == (IF "UP" \in pad THEN 1 ELSE 0) - (IF "DOWN" \in pad THEN 1 ELSE 0)

Hundreds(d) == <<100, 10, 1>>[d + 1]
TenThousands(d) == IF d \in 0 .. 4 THEN <<10000, 1000, 100, 10, 1>>[d + 1] ELSE 0

AddToOctet(e, o, n) == [e EXCEPT !.bytes[o] = (@ + n) % 256]
AddToPort(e, n) == [e EXCEPT !.port = (@ + n) % 65536]
AddToLowByte(e, n) == [e EXCEPT !.port = (@ - (@ % 256)) + (((@ % 256) + n) % 256)]

\* For an index left by malloc below 0 another field is written instead.
Changed(e, i, n) ==
  IF i > 12 THEN AddToPort(e, n * TenThousands(i - 12))
  ELSE IF i = 12 THEN AddToLowByte(e, n * Hundreds(0))
  ELSE IF i >= 0 THEN AddToOctet(e, i \div 3, n * Hundreds(i % 3))
  ELSE IF i > -3 THEN AddToOctet(e, 0, n)
  ELSE e

\* What a press means to the player who sees the underscore under digit i.
Meant(e, i, n) ==
  IF i \in 0 .. 11 THEN AddToOctet(e, i \div 3, n * Hundreds(i % 3))
                   ELSE AddToPort(e, n * TenThousands(i - 12))

JoinFrame(pad) ==
  LET i == Right(Left(ip_digit, pad), pad)
      n == Change(pad)
      touched == pad \cap {"UP", "DOWN", "LEFT", "RIGHT"} # {}
  IN  /\ menu = JOIN
      /\ press + (IF n = 0 THEN 0 ELSE 1) <= MaxPress
      /\ press' = press + (IF n = 0 THEN 0 ELSE 1)
      /\ entry' = IF n = 0 THEN entry ELSE Changed(entry, i, n)
      /\ want'  = IF n = 0 THEN want ELSE Meant(want, Clamp(i), n)
      /\ IF touched \/ prev # JOIN
         THEN ip_digit' = Clamp(i) /\ underscore' = Clamp(i)
         ELSE ip_digit' = i /\ UNCHANGED underscore
      /\ IF "TRIANGLE" \in pad
         THEN GoTo(MPTYPE) /\ Switch(JoinMenu, TypeMenu) /\ UNCHANGED gn_state
         ELSE IF "X" \in pad
         THEN GoTo(JOINING) /\ Switch(JoinMenu, Connecting) /\ gn_state' = "CONNECTING"
         ELSE GoTo(JOIN) /\ UNCHANGED <<shown, gn_state>>
      /\ UNCHANGED <<skip, type_menu_item, fade>>

Frame(pad) ==
  \/ TypeMenuFrame(pad) \/ HostFrame(pad) \/ JoinFrame(pad) \/ JoiningFrame(pad)

Next ==
  \/ MultiMenuLoop \/ GameScreen \/ Session \/ ExitingFrame
  \/ \E pad \in SUBSET Buttons : Frame(pad)

Spec == Init /\ [][Next]_vars

-----------------------------------------------------------------------------
(***************************************************************************)
(* The digits update_ip_visual draws, and which of them it shows: leading  *)
(* zeros are hidden.                                                       *)
(***************************************************************************)
OctetDigits(n) == <<(n \div 100) % 10, (n \div 10) % 10, n % 10>>
OctetShows(d, k) == k = 3 \/ \E j \in 1 .. k : d[j] # 0

PortDigits(n) == <<(n \div 10000) % 10, (n \div 1000) % 10, (n \div 100) % 10,
                   (n \div 10) % 10, n % 10>>
PortShows(d, k) == \E j \in 1 .. k : d[j] # 0

-----------------------------------------------------------------------------
(***************************************************************************)
(* "Use left and right on the D-pad to select digits of the IP address,    *)
(* use Up and Down to increment and decrement the digits": what is entered *)
(* is what the presses on the underscored digits add up to.                *)
(***************************************************************************)
EntryAsShown == menu \in {JOIN, JOINING} => entry = want

(***************************************************************************)
(* What can be seen are the sprites of the screen the player is on, the    *)
(* background they share included: fade_overlay stays enabled on the type  *)
(* menu, and wherever the player goes from there, but with color[3] at 0   *)
(* nothing is seen of it until the screen fades out.                       *)
(***************************************************************************)
SpritesOf(m) ==
  CASE m = MPTYPE -> TypeMenu
    [] m = EXITING -> TypeMenu \cup (IF fade = "clear" THEN {} ELSE {"overlay"})
    [] m = HOST -> HostMenu
    [] m = JOIN -> JoinMenu
    [] m = JOINING -> Connecting
    [] OTHER -> {}

Visible == IF fade = "clear" THEN shown \ {"overlay"} ELSE shown

OneScreenIsShown == menu # OUT => Visible = SpritesOf(menu)
=============================================================================
