------------------------------ MODULE MCParser ------------------------------
(* HttpParser over small numbers and few words: of lengths up to 15, 16     *)
(* overflows in the sum, 60 and hexadecimal 10 in the product.              *)
EXTENDS HttpParser

Types == {"HTTP_REQUEST", "HTTP_RESPONSE"}
Digits == {0, 1, 6}
HexDigits == {0, 1}
VersionDigits == {0, 1}
StatusCodes == {101, 200, 204}
MethodWords == {"GET", "CONNECT", "PRI"}
=============================================================================
