---------------------------- MODULE HexPassword -----------------------------
(***************************************************************************)
(* The session password as the client sees it                              *)
(*   (Languages/cpp/0_libuv/uv_zookeeper_wrapper/uv-node-zk.cpp):          *)
(* client_password gives out its bytes in hexadecimal, and init takes that *)
(* text back to continue the session.  A character is its ASCII code.      *)
(***************************************************************************)
EXTENDS Integers, Sequences

ZOOKEEPER_PASSWORD_BYTE_COUNT == 16

Byte == 0..255

fourBitsToHex(c) == IF c <= 9 THEN 48 + c ELSE 55 + c

hexToFourBits(h) == IF h <= 57 THEN h - 48 ELSE h - 55

ucharToHex(c) == <<fourBitsToHex(c \div 16), fourBitsToHex(c % 16)>>

hexToUchar(hex) == hexToFourBits(hex[1]) * 16 + hexToFourBits(hex[2])

(* Byte i fills the characters 2i-1 and 2i. *)
PasswordToHexString(p) ==
    [n \in 1..(2 * ZOOKEEPER_PASSWORD_BYTE_COUNT) |->
        ucharToHex(p[(n + 1) \div 2])[IF n % 2 = 1 THEN 1 ELSE 2]]

HexStringToPassword(a) ==
    [i \in 1..ZOOKEEPER_PASSWORD_BYTE_COUNT |-> hexToUchar(<<a[2 * i - 1], a[2 * i]>>)]
=============================================================================
