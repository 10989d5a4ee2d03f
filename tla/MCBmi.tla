---- MODULE MCBmi ----
\* A word of six bits, an index field of four: indices up to 15 reach past the
\* word, and every pattern of two runs with gaps at both ends occurs.
EXTENDS Bmi
====
