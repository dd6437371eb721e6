----------------------------- MODULE MCConvert -----------------------------
(* Instances of Convert for TLC; integers have 3, 5, 9 and 17 bits.        *)
EXTENDS Convert

Leaf(type, form, n) == [type |-> type, form |-> form, n |-> n]

(* 0.3, 0.1 + 0.2, 1234567890123460 and 1234567890123456.5: the second and *)
(* the fourth are written as 0.3 and 1.23456789012346e+15.                 *)
MCDecLen == <<3, 3, 18, 20>>
MCRounded == <<1, 1, 3, 3>>
MCDoubles == DOMAIN MCDecLen

MCPlain == {Leaf("TRUE", "none", 0)}
MCLeaves == {Leaf("NULL", "none", 0), Leaf("FALSE", "none", 0),
             Leaf("NUMBER", "text", 24), Leaf("WORD", "text", 3),
             Leaf("STRING", "uuid", 0), Leaf("STRING", "text", 36)}
            \cup {Leaf("STRING", "text", n) : n \in {0, 255, 256, 65535, 65536}}
            \cup {Leaf("STRING", "time", n) : n \in {-2, -1, 0, 65536, 131070, 131071, 131072, 262143}}
            \cup {Leaf("STRING", "skewed", n) : n \in {-1, 7, 131072}}
            \cup {Leaf("DECIMAL", "none", d) : d \in DOMAIN MCDecLen}
            \cup {Leaf("FIXNUM", "none", n) : n \in {-65536, -257, -256, -17, -16, -5, -4,
                                                     3, 4, 15, 16, 255, 256, 65535}}
MCKeys == {255, 256}
=============================================================================
