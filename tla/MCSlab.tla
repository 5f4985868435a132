------------------------------ MODULE MCSlab ------------------------------
EXTENDS Slab, TLC
CONSTANTS k32, k2048
\* Few small blocks to a page, and the 2 KB block that is alone in its page.
MCCount == [k \in Classes |-> IF k = k2048 THEN 1 ELSE 2]
=============================================================================
