----------------------------- MODULE MCDigestBytes -----------------------------
EXTENDS DigestBytes

(* Varints of eight values a byte: one to four bytes of padding, at and    *)
(* around every boundary, and sizes on both sides of one byte.             *)
MCPaddings == 0 .. 80 \union 500 .. 530 \union 4080 .. 4100
MCHeights == {2, 15}
MCRoot == <<15, 0, 9>>
=============================================================================
