\* A month turns while a suspended server goes on running.
SPECIFICATION FairMetering
CONSTANTS
WordBits=4
MonthLength=2
RawWindow=0
RolledWindow=2
TaskInterval=1
Quota=1
MaxMinutes=2
MaxBytes=1
MaxStops=0
PROPERTIES NewMonthLifts
CHECK_DEADLOCK FALSE
