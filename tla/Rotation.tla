------------------------------ MODULE Rotation ------------------------------
(***************************************************************************)
(* The 24 rotations of a cube (rotation.cpp, rotation.hpp) as matrices of  *)
(* -1, 0 and 1: rows are output axes, columns input axes.                  *)
(***************************************************************************)
EXTENDS Position, Sequences, SequencesExt

Identity == <<<<1, 0, 0>>, <<0, 1, 0>>, <<0, 0, 1>>>>
RotateX90 == <<<<1, 0, 0>>, <<0, 0, -1>>, <<0, 1, 0>>>>
RotateY90 == <<<<0, 0, 1>>, <<0, 1, 0>>, <<-1, 0, 0>>>>
RotateZ90 == <<<<0, -1, 0>>, <<1, 0, 0>>, <<0, 0, 1>>>>

\* compose: this * other.
Compose(a, b) == Each(LAMBDA i : Each(LAMBDA j : a[i][1] * b[1][j] + a[i][2] * b[2][j] + a[i][3] * b[3][j]))

\* The constants of one axis: none, 90, 180 and 270 degrees.
Turns(quarter) == <<Identity, quarter, Compose(quarter, quarter), Compose(quarter, Compose(quarter, quarter))>>

\* generateAllRotations: x, then y, then z; the first of equals is kept.
AllRotations ==
    LET tryAdd(list, r) == IF r \in {list[i] : i \in 1..Len(list)} \/ Len(list) = 24 THEN list ELSE Append(list, r)
        triple(n) == Compose(Compose(Turns(RotateX90)[(n \div 16) + 1], Turns(RotateY90)[((n \div 4) % 4) + 1]),
                             Turns(RotateZ90)[(n % 4) + 1])
    IN  FoldLeft(LAMBDA list, n : tryAdd(list, triple(n)), <<Identity>>, [n \in 1..64 |-> n - 1])

ByIndex(index) == AllRotations[(index % 24) + 1]

\* index(): 0 when it is not in the list.
IndexOf(r) == IF \E i \in 1..24 : AllRotations[i] = r
              THEN (CHOOSE i \in 1..24 : AllRotations[i] = r) - 1 ELSE 0

Apply(r, v) == Each(LAMBDA i : r[i][1] * v[1] + r[i][2] * v[2] + r[i][3] * v[3])

\* apply(Face): the face whose normal is the rotated normal.
ApplyToFace(r, face) == CHOOSE f \in Face : FaceNormal(f) = Apply(r, FaceNormal(face))

\* inverse: the transpose.
InverseOf(r) == Each(LAMBDA i : Each(LAMBDA j : r[j][i]))

\* AxisRotation: quarter turns about the vertical axis.
QuarterTurns(turns) == ((turns % 4) + 4) % 4
InvertTurns(turns) == (4 - turns) % 4
ApplyHorizontal(turns, x, z) == CASE turns = 1 -> <<-z, x>> [] turns = 2 -> <<-x, -z>> [] turns = 3 -> <<z, -x>>
                                  [] OTHER -> <<x, z>>
HorizontalFaces == <<0, 5, 1, 4>>  \* NegX, PosZ, PosX, NegZ
ApplyHorizontalFace(turns, face) ==
    IF \E i \in 1..4 : HorizontalFaces[i] = face
    THEN HorizontalFaces[(((CHOOSE i \in 1..4 : HorizontalFaces[i] = face) - 1 + turns) % 4) + 1]
    ELSE face
=============================================================================
