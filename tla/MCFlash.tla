------------------------------ MODULE MCFlash ------------------------------
EXTENDS Flash

\* Two blocks of two, four cells without blocks, and one block.
MCInfos == {[size |-> 4, erasesize |-> 2], [size |-> 3, erasesize |-> 0], [size |-> 3, erasesize |-> 3]}

\* Empty, within a block, over a block boundary, and too large.
MCImages == {[ver |-> "A", len |-> 0], [ver |-> "A", len |-> 3], [ver |-> "B", len |-> 1], [ver |-> "B", len |-> 5]}
=============================================================================
