------------------------------ MODULE Options ------------------------------
\* Rust's Option<T>: a set of at most one T.

None == {}
Some(x) == {x}
Option(S) == {None} \cup {Some(x) : x \in S}
=============================================================================
