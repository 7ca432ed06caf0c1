\* Two CPUs besides CPU 0 that meet at two barriers in turn.
CONSTANTS
  n_cpus = 3
  N_BARRIERS = 2
SPECIFICATION BootSpec
PROPERTY BootstrapReturns
CHECK_DEADLOCK FALSE
