------------------------------ MODULE Matrices ------------------------------
(***************************************************************************)
(* Class Matrix (agml/math/Matrix.h) as far as memory goes: a matrix       *)
(* points into a buffer that it may own or share.  A heap gives the height *)
(* of every live buffer; widths are all equal and left out, so that a row  *)
(* is the unit of everything.                                              *)
(***************************************************************************)
EXTENDS Naturals, FiniteSets

(* Matrix(): data is null.                                                 *)
NoMatrix == [buf |-> 0, off |-> 0, height |-> 0, own |-> FALSE]
HasData(m) == m.buf # 0

IsHeap(heap) ==
    /\ DOMAIN heap \subseteq Nat \ {0} /\ IsFiniteSet(DOMAIN heap)
    /\ \A b \in DOMAIN heap : heap[b] \in Nat \ {0}
SomeMatrix == [buf : Nat, off : Nat, height : Nat, own : BOOLEAN]

(* Matrix(height, width), init: a buffer of its own.                       *)
Fresh(heap) == CHOOSE b \in 1 .. Cardinality(DOMAIN heap) + 1 : b \notin DOMAIN heap
New(heap, h) ==
    [heap |-> [b \in DOMAIN heap \cup {Fresh(heap)} |-> IF b = Fresh(heap) THEN h ELSE heap[b]],
     m |-> [buf |-> Fresh(heap), off |-> 0, height |-> h, own |-> TRUE]]

(* ~Matrix, clear.                                                         *)
Delete(heap, m) == IF m.own THEN [b \in DOMAIN heap \ {m.buf} |-> heap[b]] ELSE heap

(* Matrix(data, height, width): h rows of m from row i on, not owned.      *)
View(m, i, h) == [buf |-> m.buf, off |-> m.off + i, height |-> h, own |-> FALSE]

(* part(i, n): the last part takes the remainder; of fewer rows than parts *)
(* each of the first parts takes one.  The mutant forgets the offset.      *)
PartAtStart(m, i, n) == IF i < m.height THEN View(m, 0, (m.height + n - 1) \div n) ELSE NoMatrix
Part(m, i, n) ==
    LET h == m.height \div n
    IN IF h > 0 THEN View(m, i * h, IF i = n - 1 THEN m.height - i * h ELSE h)
       ELSE IF i < m.height THEN View(m, i, 1) ELSE NoMatrix

(* operator=(const Matrix&): an empty matrix takes a buffer of its own.    *)
Assigned(heap, m, h) == IF HasData(m) THEN [heap |-> heap, m |-> m] ELSE New(heap, h)

(* operator+=, and operator= to a matrix with data, throw otherwise.       *)
SameSize(m1, m2) == m1.height = m2.height

Rows(m) == {<<m.buf, r>> : r \in m.off + 1 .. m.off + m.height}
=============================================================================
