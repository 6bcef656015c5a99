----------------------------- MODULE MCNotebook -----------------------------
\* Bounds for model checking Notebook.
EXTENDS Notebook
CONSTANTS c1, c2
OneCell == <<c1>>
\* Versions an agent may carry: any the cells can have, and one too high.
VersionRange == 0 .. MaxVersion + 1
=============================================================================
