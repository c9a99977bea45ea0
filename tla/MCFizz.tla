------------------------------- MODULE MCFizz -------------------------------
\* Fizz on its own, with the programs that MCComponents gives it.
EXTENDS Fizz, FizzPrograms
=============================================================================
