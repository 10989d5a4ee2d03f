-------------------------------- MODULE MCLanes --------------------------------
EXTENDS LaneOperations

\* Constant operands, operands whose lanes differ, small ones included, and falling ones.
MCLhsStrides == {0, 1, 3, 7}
MCRhsStrides == {0, 3}
===============================================================================
