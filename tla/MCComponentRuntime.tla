------------------------ MODULE MCComponentRuntime ------------------------
EXTENDS ComponentRuntime

CONSTANTS t1, t2, w1, w2
============================================================================
