------------------------------ MODULE Keyboard ------------------------------
(***************************************************************************)
(* The character codes a key press stands for: read_keyControl for a key   *)
(* of the terminal, convert_sfml_key for a key of the window, and the      *)
(* three codes the emulator keeps for itself.                              *)
(***************************************************************************)
EXTENDS Integers, Sequences, TLC

NoKey == -1

Letters == <<"A", "B", "C", "D", "E", "F", "G", "H", "I", "J", "K", "L", "M",
             "N", "O", "P", "Q", "R", "S", "T", "U", "V", "W", "X", "Y", "Z">>

LetterNumber == [l \in {Letters[i] : i \in 1 .. 26} |->
                   CHOOSE i \in 1 .. 26 : Letters[i] = l]

(* Under Control a letter is its number and six other keys have a code of  *)
(* their own; every other key is no key.                                   *)
ControlKey ==
  LetterNumber @@ [LBracket |-> 27, Backslash |-> 28, RBracket |-> 29,
                   Num6 |-> 30, Slash |-> 31, Tilde |-> 0]

(* <<plain, shifted>> of the keys that are not letters.                    *)
OtherKey ==
  [Num0 |-> <<48, 41>>, Num1 |-> <<49, 33>>, Num2 |-> <<50, 64>>, Num3 |-> <<51, 35>>,
   Num4 |-> <<52, 36>>, Num5 |-> <<53, 37>>, Num6 |-> <<54, 94>>, Num7 |-> <<55, 38>>,
   Num8 |-> <<56, 42>>, Num9 |-> <<57, 40>>,
   Space |-> <<32, 32>>, Comma |-> <<44, 60>>, Period |-> <<46, 62>>, Slash |-> <<47, 63>>,
   Backslash |-> <<92, 124>>, SemiColon |-> <<59, 58>>, Quote |-> <<39, 34>>,
   Tilde |-> <<96, 126>>, Equal |-> <<61, 43>>, Hyphen |-> <<45, 95>>,
   LBracket |-> <<91, 123>>, RBracket |-> <<93, 125>>,
   Delete |-> <<127, 127>>, BackSpace |-> <<127, 127>>, Enter |-> <<10, 10>>, Tab |-> <<9, 9>>]

PlainKey == [l \in DOMAIN LetterNumber |-> <<96 + LetterNumber[l], 64 + LetterNumber[l]>>] @@ OtherKey

ConvertSfmlKey(key, shift, control) ==
  CASE control /\ key \in DOMAIN ControlKey -> ControlKey[key]
    [] ~control /\ key \in DOMAIN PlainKey  -> PlainKey[key][IF shift THEN 2 ELSE 1]
    [] OTHER                                -> NoKey

(* A terminal in raw mode delivers every code; ICRNL turns return into     *)
(* line feed.  That raw mode may fail is in Console.                       *)
ReadKeyControl(code) == IF code = 13 THEN 10 ELSE code

(* The keys that are requests to the emulator and never input.             *)
Request == (3 :> "abort") @@ (26 :> "shutdown") @@ (29 :> "halt")

=============================================================================
