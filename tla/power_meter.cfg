SPECIFICATION MCSpec
CONSTANTS
    Low = 2
    High = 3
    Filter = 2
    Values = {v1}
    Infinite = Infinite
    Blank = Blank
    Torn = Torn
    Registers = {Impulses, Vtest, Itest}
    Impulses = Impulses
    Params = {p1}
    Zero = Zero
    Nothing = Nothing
INVARIANTS TypeOK RmsWithinReadings CalibrationIsStored DoneMeansCalibrated
PROPERTIES CalibrationAnswered CalibrationShows AnswerComesNearer
